---- MODULE Spec2Model ----
(***************************************************************************)
(* A model of paradox, a library that builds a language-neutral tree of    *)
(* expressions and statements and renders it as Python, TypeScript or PHP  *)
(* source text.                                                            *)
(*                                                                         *)
(* Rendered code is modelled as text: an expression renders to a string    *)
(* with a precedence tag, a statement renders to a sequence of lines.      *)
(* A render that raises is modelled by the name of the exception.          *)
(***************************************************************************)
EXTENDS Integers, Sequences, FiniteSets, TLC

VARIABLES
    expr,        \* the PanExpr built so far by the expression helpers
    rendered,    \* per target, the (code, precedence) pair last rendered for expr
    tryblock,    \* a TryCatchBlock: its catch blocks and its finally block
    tryout,      \* per target, the lines last written for tryblock
    appendout,   \* per target, the line a ListAppendStatement on expr wrote
    cls,         \* a ClassSpec held by a Script
    clsout,      \* per target, the text get_source_code last returned for cls
    declared,    \* the addProperty calls made on cls, or the addOverload calls
                 \* made on func, in order
    repeated,    \* was get_source_code called again for a target it had rendered?
    raised,      \* the exception the last builder call raised ("" when it returned)
    func,        \* a FunctionSpec
    funcout,     \* per target, the lines last written for func
    pantype,     \* what expr.getPanType() last returned or raised
    iface,       \* an InterfaceSpec
    ifaceout,    \* per target, the lines last written for iface
    script,      \* a Script: its statements and the imports added to it
    scriptout,   \* per target, what rendering script last wrote or raised
    dest,        \* the file or handle a script is written to: its lines
    lit,         \* the variants a CrossLiteral was constructed with
    littext      \* per target, the type text last rendered for lit

vars == <<expr, rendered, appendout, tryblock, tryout, cls, clsout, declared, repeated,
          raised, func, funcout, pantype, iface, ifaceout, script, scriptout, dest, lit,
                littext>>

Langs == {"python", "typescript", "php"}

(***************************************************************************)
(* Bounds of the model.                                                    *)
(***************************************************************************)
\* how many helper calls may be nested around a leaf expression
MaxDepth == 2
\* how many catch blocks a try block may get
MaxCatch == 3
\* how many properties a class spec or an interface spec may get
MaxProps == 2
\* how many arguments a function spec may get where the arguments may be
\* nullable and omittable
MaxOmitArgs == 1
\* how many arguments, overloads and statements a function spec may get
\* where it is rendered; MaxArgs is also how many arguments a call may get
MaxArgs == 2
MaxOverloads == 2
MaxStmts == 1

(***************************************************************************)
(* paradox/expressions.py: precedence tags                                 *)
(***************************************************************************)
PyPrecedence == [Literal |-> 1, Dot |-> 2, MultDiv |-> 3, AddSub |-> 4]
TSPrecedence == [Literal |-> 1, Dot |-> 2, MultDiv |-> 3, AddSub |-> 4]
PHPPrecedence == [Literal |-> 1, Arrow |-> 2, MultDiv |-> 3]

\* the Dot (Arrow in PHP) level of a target's precedence enum
DotLevel(lang) ==
    CASE lang = "python" -> PyPrecedence.Dot
      [] lang = "typescript" -> TSPrecedence.Dot
      [] lang = "php" -> PHPPrecedence.Arrow

\* the MultDiv level of a target's precedence enum
MultLevel(lang) ==
    CASE lang = "python" -> PyPrecedence.MultDiv
      [] lang = "typescript" -> TSPrecedence.MultDiv
      [] lang = "php" -> PHPPrecedence.MultDiv

\* the Literal level of a target's precedence enum
LiteralLevel(lang) ==
    CASE lang = "python" -> PyPrecedence.Literal
      [] lang = "typescript" -> TSPrecedence.Literal
      [] lang = "php" -> PHPPrecedence.Literal

\* the result of a getPyExpr/getTSExpr/getPHPExpr call: a pair, or an exception
Ok(code, prec) == [code |-> code, prec |-> prec, err |-> ""]
Raise(exc) == [code |-> "", prec |-> 0, err |-> exc]

\* "(" + code + ")"
Parens(code) == "(" \o code \o ")"

\* _wrapdot(): parenthesize when the tag is at or above the Dot level
WrapDot(pair, lang) ==
    IF pair.prec >= DotLevel(lang) THEN Parens(pair.code) ELSE pair.code

\* _wrapmult(): parenthesize when the tag is at or above the MultDiv level
WrapMult(pair, lang) ==
    IF pair.prec >= MultLevel(lang) THEN Parens(pair.code) ELSE pair.code

\* as WrapOwner, but with the test of _wrapdot (at or above the Dot level)
WrapOwnerMut(pair, lang) ==
    IF pair.prec >= DotLevel(lang) THEN Parens(pair.code) ELSE pair.code
\* the inline test `if prec.value > Dot.value` used by PanProp, PanCall and
\* _PanItemAccess for the expression a member or index access is applied to
WrapOwner(pair, lang) ==
    IF pair.prec > DotLevel(lang) THEN Parens(pair.code) ELSE pair.code

\* _phpstr(), for strings that hold no quote and no backslash
PhpStr(s) == "'" \o s \o "'"

\* repr() of a str, for strings that hold no quote and no backslash
PyRepr(s) == "'" \o s \o "'"

(***************************************************************************)
(* paradox/expressions.py: the expression nodes                            *)
(***************************************************************************)
NoExpr == [kind |-> "none"]
\* no type: None where a type is optional, returntype="no_return"
NoType == [kind |-> "none"]

\* PanVar(name, None) and PanVar(name, type)
PanVar(name) == [kind |-> "var", name |-> name, type |-> NoType]
PanVarOfType(name, type) == [kind |-> "var", name |-> name, type |-> type]
PanLiteral(val) == [kind |-> "lit", val |-> val]
PanProp(name, owner) == [kind |-> "prop", name |-> name, owner |-> owner]
PanKeyAccess(target, key, fallback) ==
    [kind |-> "key", target |-> target, idx |-> key, fallback |-> fallback]
\* PanIndexAccess(target, idx, fallback)
PanIndexAccess(target, idx, fallback) ==
    [kind |-> "index", target |-> target, idx |-> idx, fallback |-> fallback]
\* PanCall(target, *pargs); kwargs is the dict of keyword arguments, in
\* insertion order
PanCall(target, pargs) ==
    [kind |-> "call", target |-> target, pargs |-> pargs, kwargs |-> <<>>]
PanAndOr(operation, arguments) ==
    [kind |-> "andor", operation |-> operation, arguments |-> arguments]
PanNot(arg) == [kind |-> "not", arg |-> arg]
PanLengthExpr(target) == [kind |-> "length", target |-> target]
PanIsNullExpr(target) == [kind |-> "isnull", target |-> target, negated |-> FALSE]
PanCompare(operation, arg1, arg2) ==
    [kind |-> "compare", operation |-> operation, arg1 |-> arg1, arg2 |-> arg2,
     negated |-> FALSE]
PanAwait(waitable) == [kind |-> "await", waitable |-> waitable]
PanOmit == [kind |-> "omit"]
PanPyOnly(code) == [kind |-> "pyonly", code |-> code]
PanTSOnly(code) == [kind |-> "tsonly", code |-> code]
\* HardCodedExpr(getphp=.., getpy=.., getts=.., type=..): each callback is
\* [t |-> "str", v |-> code] for what it returns, or NoneVal
HardCodedExpr(getphp, getpy, getts, type) ==
    [kind |-> "hardcodedexpr", php |-> getphp, python |-> getpy, typescript |-> getts,
     type |-> type]

\* literal values: an int, a bool, a str, None
IntVal(n) == [t |-> "int", v |-> n]
BoolVal(b) == [t |-> "bool", v |-> b]
StrVal(s) == [t |-> "str", v |-> s]
NoneVal == [t |-> "null"]

\* getNegated() is implemented by PanIsNullExpr and PanCompare only; the base
\* class raises NotImplementedError
HasNegated(e) == e.kind \in {"isnull", "compare"}
getNegated(e) == [e EXCEPT !.negated = ~@]


\* PanCall.addPositionalArg
PanCallAddPositionalArg(call, e) == [call EXCEPT !.pargs = Append(@, e)]

\* the exception PanCall.addKWArg raises, "" when it returns
PanCallAddKWArgRaises(call, argname) ==
    IF \E i \in DOMAIN call.kwargs : call.kwargs[i].name = argname
    THEN "AssertionError" ELSE ""

\* PanCall.addKWArg
PanCallAddKWArg(call, argname, e) ==
    IF PanCallAddKWArgRaises(call, argname) # "" THEN call
    ELSE [call EXCEPT !.kwargs = Append(@, [name |-> argname, value |-> e])]

\* is x an expression node (and not a plain int or str given as an index)?
IsExpr(x) == "kind" \in DOMAIN x

\* ", ".join(...) and the other joins
RECURSIVE Join(_, _)
Join(codes, sep) ==
    IF Len(codes) = 0 THEN ""
    ELSE IF Len(codes) = 1 THEN codes[1]
    ELSE codes[1] \o sep \o Join(Tail(codes), sep)

\* the first exception raised while the results were computed in order
FirstErr(results) ==
    IF \E i \in DOMAIN results : results[i].err # ""
    THEN results[CHOOSE i \in DOMAIN results :
                    /\ results[i].err # ""
                    /\ \A j \in DOMAIN results : j < i => results[j].err = ""].err
    ELSE ""

\* PanLiteral.getPyExpr / getTSExpr / getPHPExpr
PanLiteralExpr(lang, val) ==
    CASE val.t = "null" ->
            Ok(IF lang = "python" THEN "None" ELSE "null", LiteralLevel(lang))
      [] val.t = "bool" ->
            Ok(IF lang = "python"
               THEN (IF val.v THEN "True" ELSE "False")
               ELSE (IF val.v THEN "true" ELSE "false"), LiteralLevel(lang))
      [] val.t = "int" -> Ok(ToString(val.v), LiteralLevel(lang))
      [] val.t = "str" ->
            Ok(IF lang = "php" THEN PhpStr(val.v) ELSE PyRepr(val.v), LiteralLevel(lang))

\* PanVar.getPyExpr / getTSExpr / getPHPExpr
PanVarExpr(lang, name) ==
    Ok(IF lang = "php" THEN "$" \o name ELSE name, LiteralLevel(lang))

\* PanProp.getPyExpr / getTSExpr / getPHPExpr; owner is the owner's rendering,
\* hasowner is false when the owner is None (self / this)
PanPropExpr(lang, name, hasowner, owner) ==
    IF ~hasowner
    THEN Ok((CASE lang = "python" -> "self."
               [] lang = "typescript" -> "this."
               [] lang = "php" -> "$this->") \o name, DotLevel(lang))
    ELSE Ok(WrapOwner(owner, lang) \o (IF lang = "php" THEN "->" ELSE ".") \o name,
            DotLevel(lang))

\* repr(idx) / _phpstr(idx) of an index given as a plain int or str
IndexRepr(lang, idx) ==
    IF idx.t = "int" THEN ToString(idx.v)
    ELSE IF lang = "php" THEN PhpStr(idx.v) ELSE PyRepr(idx.v)

\* _PanItemAccess.getPyExpr / getTSExpr / getPHPExpr for a PanKeyAccess, with
\* PanKeyAccess._getPyExprWithFallback and ._getTSExprWithFallback;
\* target, fallback: the renderings of the children; indexexpr: the index code
PanKeyAccessExpr(lang, target, indexexpr, hasfallback, fallback) ==
    LET targetstr == WrapOwner(target, lang)
        accessstr == targetstr \o "[" \o indexexpr \o "]"
    IN  IF ~hasfallback THEN Ok(accessstr, DotLevel(lang))
        ELSE CASE lang = "python" ->
                    Ok(targetstr \o ".get(" \o indexexpr \o ", " \o fallback.code \o ")",
                       PyPrecedence.Dot)
               [] lang = "typescript" ->
                    Ok(accessstr \o " === undefined ? " \o fallback.code \o " : "
                         \o accessstr, TSPrecedence.Dot)
               [] lang = "php" ->
                    Ok(accessstr \o " ?? " \o WrapMult(fallback, lang),
                       PHPPrecedence.MultDiv)

\* PanCall.getPyExpr / getTSExpr / getPHPExpr once the arguments are rendered;
\* target is a function name (targetisstr) or the rendering of a PanProp
PanCallExpr(lang, targetisstr, target, argcodes) ==
    LET argstr == Join(argcodes, ", ")
    IN  IF targetisstr
        THEN Ok(target \o "(" \o argstr \o ")", DotLevel(lang))
        ELSE Ok(WrapOwner(target, lang) \o "(" \o argstr \o ")", DotLevel(lang))

\* the renderings PanAndOr.getTSExpr takes its operands' code from when it has
\* two or more operands: it calls a.getPyExpr()
TSAndOrOperandLang == "python"

\* _PanItemAccess.getPyExpr / getTSExpr / getPHPExpr for a PanIndexAccess:
\* PanIndexAccess._getPyExprWithFallback raises Exception("TODO: handle
\* fallback"), and _getTSExprWithFallback is the one of the base class
PanIndexAccessExpr(lang, target, indexexpr, hasfallback, fallback) ==
    IF hasfallback /\ lang = "python" THEN Raise("Exception")
    ELSE IF hasfallback /\ lang = "typescript" THEN Raise("NotImplementedError")
    ELSE PanKeyAccessExpr(lang, target, indexexpr, hasfallback, fallback)

\* PanAndOr.getPyExpr / getTSExpr / getPHPExpr; args are the operands'
\* renderings in the target (for TypeScript with two or more operands: in
\* TSAndOrOperandLang)
PanAndOrExpr(lang, operation, args) ==
    LET n == Len(args)
        each == [i \in 1..n |-> Parens(args[i].code)]
    IN  CASE lang = "python" ->
                IF n = 1 THEN Ok("bool(" \o args[1].code \o ")", PyPrecedence.Literal)
                ELSE Ok("bool(" \o Join(each, IF operation = "OR" THEN " or " ELSE " and ")
                          \o ")", PyPrecedence.Literal)
          [] lang = "typescript" ->
                IF n = 1 THEN Ok("!!(" \o args[1].code \o ")", TSPrecedence.AddSub)
                ELSE Ok("!!(" \o Join(each, IF operation = "OR" THEN " || " ELSE " && ")
                          \o ")", TSPrecedence.Literal)
          [] lang = "php" ->
                LET wrapped == [i \in 1..n |-> WrapDot(args[i], lang)]
                IN  IF n = 1 THEN Ok("(bool)" \o wrapped[1], PHPPrecedence.MultDiv)
                    ELSE Ok(Join(wrapped, IF operation = "OR" THEN " || " ELSE " && "),
                            PHPPrecedence.MultDiv)

\* PanNot.getPyExpr / getTSExpr / getPHPExpr when the operand has no negated
\* form: the prefix in front of the operand
PanNotExpr(lang, arg) ==
    Ok((IF lang = "python" THEN "not " ELSE "!") \o WrapMult(arg, lang), MultLevel(lang))

\* PanLengthExpr.getPyExpr / getTSExpr / getPHPExpr
PanLengthExprExpr(lang, target) ==
    CASE lang = "python" -> Ok("len(" \o target.code \o ")", PyPrecedence.Literal)
      [] lang = "typescript" -> Ok(WrapDot(target, lang) \o ".length", TSPrecedence.Dot)
      [] lang = "php" -> Ok("count(" \o target.code \o ")", PHPPrecedence.Literal)

\* PanIsNullExpr.getPyExpr / getTSExpr / getPHPExpr
PanIsNullExprExpr(lang, negated, target) ==
    CASE lang = "python" ->
            Ok(WrapDot(target, lang) \o (IF negated THEN " is not None" ELSE " is None"),
               PyPrecedence.AddSub)
      [] lang = "typescript" ->
            Ok(WrapDot(target, lang) \o (IF negated THEN " !== null" ELSE " === null"),
               TSPrecedence.AddSub)
      [] lang = "php" ->
            Ok(WrapDot(target, lang) \o (IF negated THEN " !== null" ELSE " === null"),
               PHPPrecedence.MultDiv)

\* as getComp, but the negation of an order comparison is the opposite strict
\* comparison
getCompMut(operation, negated) ==
    IF negated
    THEN CASE operation = "===" -> "!=="
           [] operation = "<" -> ">"
           [] operation = ">" -> "<"
    ELSE operation

\* PanCompare._getComp
getComp(operation, negated) ==
    IF negated
    THEN CASE operation = "===" -> "!=="
           [] operation = "<" -> ">="
           [] operation = ">" -> "<="
    ELSE operation

\* PanCompare.getPyExpr / getTSExpr / getPHPExpr
PanCompareExpr(lang, operation, negated, arg1, arg2) ==
    LET comp == IF lang = "python" /\ operation = "==="
                THEN (IF negated THEN "!=" ELSE "==")
                ELSE getComp(operation, negated)
    IN  Ok(WrapMult(arg1, lang) \o " " \o comp \o " " \o WrapMult(arg2, lang),
           MultLevel(lang))

\* PanAwait.getPyExpr / getTSExpr / getPHPExpr
PanAwaitExpr(lang, waitable) ==
    CASE lang = "python" -> Ok("await " \o WrapMult(waitable, lang), PyPrecedence.AddSub)
      [] lang = "typescript" ->
            Ok("await " \o WrapMult(waitable, lang), TSPrecedence.AddSub)
      [] lang = "php" -> Raise("NotSupportedError")


\* PanOmit.getPyExpr / getTSExpr / getPHPExpr
PanOmitExpr(lang) ==
    CASE lang = "python" -> Ok("...", PyPrecedence.MultDiv)
      [] lang = "typescript" -> Ok("undefined", TSPrecedence.Literal)
      [] lang = "php" -> Raise("NotSupportedError")

\* PanPyOnly.getPyExpr / getTSExpr / getPHPExpr and PanTSOnly.getPyExpr /
\* getTSExpr / getPHPExpr, with the default precedence
PanOnlyExpr(lang, only, code) ==
    IF lang # only THEN Raise("Exception")
    ELSE Ok(code, MultLevel(lang))

\* HardCodedExpr.getPyExpr / getTSExpr / getPHPExpr
HardCodedExprExpr(lang, callback) ==
    IF callback.t = "null" THEN Raise("Exception")
    ELSE Ok(callback.v, MultLevel(lang))

\* pannotomit(expr): a HardCodedExpr whose getpy and getts callbacks render
\* expr when they are called, and that has no getphp callback
pannotomit(e) == [kind |-> "notomit", expr |-> e]

\* the method the getts callback of pannotomit calls on expr
NotOmitTSOperandLang == "python"

\* HardCodedExpr.getPyExpr / getTSExpr / getPHPExpr with the callbacks of
\* pannotomit; arg is the rendering of expr the callback asked for, and
\* _wrapdot goes by the enum of the tag it is given
PanNotOmitExpr(lang, arg) ==
    CASE lang = "python" ->
            Ok("not isinstance(" \o arg.code \o ", type(...))", MultLevel(lang))
      [] lang = "typescript" ->
            Ok("typeof " \o WrapDot(arg, NotOmitTSOperandLang) \o " !== 'undefined'",
               MultLevel(lang))
      [] lang = "php" -> Raise("Exception")

\* getPyExpr() / getTSExpr() / getPHPExpr() of an expression tree: each node
\* renders its children, then itself; an exception raised by a child propagates
RECURSIVE getExpr(_, _)
getExpr(e, lang) ==
    CASE e.kind = "var" -> PanVarExpr(lang, e.name)
      [] e.kind = "lit" -> PanLiteralExpr(lang, e.val)
      [] e.kind = "prop" ->
            IF e.owner.kind = "none" THEN PanPropExpr(lang, e.name, FALSE, Ok("", 0))
            ELSE LET owner == getExpr(e.owner, lang)
                 IN  IF owner.err # "" THEN owner
                     ELSE PanPropExpr(lang, e.name, TRUE, owner)
      [] e.kind \in {"key", "index"} ->
            LET target == getExpr(e.target, lang)
                index == IF IsExpr(e.idx) THEN getExpr(e.idx, lang)
                         ELSE Ok(IndexRepr(lang, e.idx), 0)
                hasfallback == e.fallback.kind # "none"
                fallback == IF hasfallback THEN getExpr(e.fallback, lang) ELSE Ok("", 0)
                err == FirstErr(<<target, index, fallback>>)
            IN  IF err # "" THEN Raise(err)
                ELSE IF e.kind = "index"
                THEN PanIndexAccessExpr(lang, target, index.code, hasfallback, fallback)
                ELSE PanKeyAccessExpr(lang, target, index.code, hasfallback, fallback)
      [] e.kind = "call" ->
            \* Python appends k=v for each keyword argument; TypeScript and
            \* PHP render the positional arguments, then
            \* `assert not len(self._kwargs)`
            LET args == [i \in 1..Len(e.pargs) |-> getExpr(e.pargs[i], lang)]
                kwargs == IF lang = "python"
                          THEN [i \in 1..Len(e.kwargs) |-> getExpr(e.kwargs[i].value, lang)]
                          ELSE IF Len(e.kwargs) > 0 THEN <<Raise("AssertionError")>>
                          ELSE <<>>
                targetisstr == ~IsExpr(e.target)
                target == IF targetisstr THEN Ok(e.target.v, 0) ELSE getExpr(e.target, lang)
                err == FirstErr(args \o kwargs \o <<target>>)
            IN  IF err # "" THEN Raise(err)
                ELSE PanCallExpr(lang, targetisstr,
                                 IF targetisstr THEN target.code ELSE target,
                                 [i \in 1..Len(args) |-> args[i].code]
                                     \o [i \in 1..Len(kwargs) |->
                                            e.kwargs[i].name \o "=" \o kwargs[i].code])
      [] e.kind = "andor" ->
            LET n == Len(e.arguments)
                from == IF lang = "typescript" /\ n > 1 THEN TSAndOrOperandLang ELSE lang
                args == [i \in 1..n |-> getExpr(e.arguments[i], from)]
                err == FirstErr(args)
            IN  IF err # "" THEN Raise(err) ELSE PanAndOrExpr(lang, e.operation, args)
      [] e.kind = "not" ->
            IF HasNegated(e.arg) THEN getExpr(getNegated(e.arg), lang)
            ELSE LET arg == getExpr(e.arg, lang)
                 IN  IF arg.err # "" THEN arg ELSE PanNotExpr(lang, arg)
      [] e.kind = "length" ->
            LET target == getExpr(e.target, lang)
            IN  IF target.err # "" THEN target ELSE PanLengthExprExpr(lang, target)
      [] e.kind = "isnull" ->
            LET target == getExpr(e.target, lang)
            IN  IF target.err # "" THEN target
                ELSE PanIsNullExprExpr(lang, e.negated, target)
      [] e.kind = "compare" ->
            LET arg1 == getExpr(e.arg1, lang)
                arg2 == getExpr(e.arg2, lang)
                err == FirstErr(<<arg1, arg2>>)
            IN  IF err # "" THEN Raise(err)
                ELSE PanCompareExpr(lang, e.operation, e.negated, arg1, arg2)
      [] e.kind = "await" ->
            IF lang = "php" THEN PanAwaitExpr(lang, Ok("", 0))
            ELSE LET waitable == getExpr(e.waitable, lang)
                 IN  IF waitable.err # "" THEN waitable ELSE PanAwaitExpr(lang, waitable)
      [] e.kind = "omit" -> PanOmitExpr(lang)
      [] e.kind = "pyonly" -> PanOnlyExpr(lang, "python", e.code)
      [] e.kind = "tsonly" -> PanOnlyExpr(lang, "typescript", e.code)
      [] e.kind = "hardcodedexpr" -> HardCodedExprExpr(lang, e[lang])
      [] e.kind = "notomit" ->
            IF lang = "php" THEN PanNotOmitExpr(lang, Ok("", 0))
            ELSE LET arg == getExpr(e.expr, IF lang = "typescript" THEN NotOmitTSOperandLang
                                            ELSE lang)
                 IN  IF arg.err # "" THEN arg ELSE PanNotOmitExpr(lang, arg)

(***************************************************************************)
(* paradox/generate/statements.py: ListAppendStatement                     *)
(***************************************************************************)
\* ListAppendStatement.writepy / writets / writephp: the line written, from the
\* renderings of the list and of the value
ListAppendStatementWrite(lang, list_, value) ==
    CASE lang = "python" ->
            (IF list_.prec >= PyPrecedence.MultDiv THEN Parens(list_.code) ELSE list_.code)
                \o ".append(" \o value.code \o ")"
      [] lang = "typescript" ->
            (IF list_.prec >= TSPrecedence.MultDiv THEN Parens(list_.code) ELSE list_.code)
                \o ".push(" \o value.code \o ");"
      [] lang = "php" ->
            (IF list_.prec > PHPPrecedence.Arrow THEN Parens(list_.code) ELSE list_.code)
                \o "[] = " \o value.code \o ";"


(***************************************************************************)
(* paradox/output/__init__.py: FileWriter.  A writer is modelled by its    *)
(* base indent; what it wrote is a sequence of lines.                      *)
(***************************************************************************)
\* indentstr * indent, for the default indentstr of four spaces
RECURSIVE Ind(_)
Ind(indent) == IF indent = 0 THEN "" ELSE "    " \o Ind(indent - 1)

\* FileWriter.line0 at base indent b (line1 is Line(b + 1, ...))
Line(b, text) == <<Ind(b) \o text>>

\* FileWriter.blank
Blank == <<"">>

\* the outcome of a write call: the lines written, the exception raised (if
\* any, after those lines were written) and writepy's return value
Wrote(lines, n) == [lines |-> lines, err |-> "", n |-> n]
Failed(lines, exc) == [lines |-> lines, err |-> exc, n |-> 0]

\* two writes one after the other: the second happens unless the first raised
Then(first, second) ==
    IF first.err # "" THEN first
    ELSE [lines |-> first.lines \o second.lines, err |-> second.err,
          n |-> first.n + second.n]

\* `return n` at the end of a writepy that got that far
Returns(written, n) == IF written.err # "" THEN written ELSE Wrote(written.lines, n)

(***************************************************************************)
(* paradox/generate/statements.py: simple statements                       *)
(***************************************************************************)
PanExprStatement(e) == [kind |-> "exprstmt", expr |-> e]
ReturnStatement(e) == [kind |-> "return", expr |-> e]
AssignmentStatement(target, e) == [kind |-> "assign", target |-> target, expr |-> e]
\* each implementation is [t |-> "str", v |-> code], NoneVal (write nothing)
\* or Ellipsis (not given)
HardCodedStatement(python, typescript, php) ==
    [kind |-> "hardcoded", python |-> python, typescript |-> typescript, php |-> php]
Ellipsis == [t |-> "ellipsis"]

\* PanExprStatement.writepy / writets / writephp
PanExprStatementWrite(lang, stmt, b) ==
    LET e == getExpr(stmt.expr, lang)
    IN  IF e.err # "" THEN Failed(<<>>, e.err)
        ELSE Wrote(Line(b, e.code \o (IF lang = "python" THEN "" ELSE ";")), 1)

\* AssignmentStatement.writepy / writets / writephp for an assignment that is
\* no declaration (alsoAssign)
AssignmentStatementWrite(lang, stmt, b) ==
    LET left == getExpr(stmt.target, lang)
        right == getExpr(stmt.expr, lang)
        err == FirstErr(<<left, right>>)
    IN  IF err # "" THEN Failed(<<>>, err)
        ELSE Wrote(Line(b, left.code \o " = " \o right.code
                              \o (IF lang = "python" THEN "" ELSE ";")), 1)

\* ReturnStatement.writepy / writets / writephp
ReturnStatementWrite(lang, stmt, b) ==
    LET e == getExpr(stmt.expr, lang)
        end == IF lang = "python" THEN "" ELSE ";"
    IN  IF stmt.expr.kind = "omit" THEN Wrote(Line(b, "return" \o end), 1)
        ELSE IF e.err # "" THEN Failed(<<>>, e.err)
        ELSE Wrote(Line(b, "return " \o e.code \o end), 1)

\* HardCodedStatement.writepy / writets / writephp
HardCodedStatementWrite(lang, stmt, b) ==
    LET impl == stmt[lang]
    IN  CASE impl.t = "ellipsis" -> Failed(<<>>, "ImplementationMissing")
          [] impl.t = "null" -> Wrote(<<>>, 0)
          [] impl.t = "str" -> Wrote(Line(b, impl.v), 1)

\* stmt.writepy(w) / writets(w) / writephp(w) for a simple statement
WriteStmt(lang, stmt, b) ==
    CASE stmt.kind = "exprstmt" -> PanExprStatementWrite(lang, stmt, b)
      [] stmt.kind = "assign" -> AssignmentStatementWrite(lang, stmt, b)
      [] stmt.kind = "hardcoded" -> HardCodedStatementWrite(lang, stmt, b)
      [] stmt.kind = "return" -> ReturnStatementWrite(lang, stmt, b)

\* `for stmt in self._statements: stmt.write..(w)`, as Statements.writepy /
\* writets / writephp do it
RECURSIVE WriteStatements(_, _, _)
WriteStatements(lang, stmts, b) ==
    IF Len(stmts) = 0 THEN Wrote(<<>>, 0)
    ELSE Then(WriteStmt(lang, Head(stmts), b), WriteStatements(lang, Tail(stmts), b))

(***************************************************************************)
(* paradox/generate/statements.py: TryCatchBlock                           *)
(***************************************************************************)
\* CatchBlock2(var, pyclass=, tsclass=, phpclass=); "" stands for None
CatchBlock2(var, pyclass, tsclass, phpclass, statements) ==
    [var |-> var, pyclass |-> pyclass, tsclass |-> tsclass, phpclass |-> phpclass,
     statements |-> statements]

\* CatchBlock2.writepy
CatchBlock2WritePy(cb, b) ==
    LET intro == (IF cb.pyclass # "" THEN "except " \o cb.pyclass ELSE "except Exception")
                    \o (IF cb.var # "" THEN " as " \o cb.var ELSE "") \o ":"
        body == WriteStatements("python", cb.statements, b + 1)
    IN  Returns(Then(Wrote(Line(b, intro), 0),
                     Then(body,
                          Wrote(IF body.n = 0 THEN Line(b + 1, "pass") ELSE <<>>, 0))), 1)

\* CatchBlock2.writephp
CatchBlock2WritePHP(cb, b) ==
    Then(Wrote(Line(b, "} catch (" \o (IF cb.phpclass # "" THEN cb.phpclass ELSE "Exception")
                         \o " $" \o (IF cb.var # "" THEN cb.var ELSE "_") \o ") {"), 0),
         WriteStatements("php", cb.statements, b + 1))

\* FinallyBlock.writepy / writets / writephp
FinallyBlockWrite(lang, statements, b) ==
    Returns(Then(Wrote(Line(b, IF lang = "python" THEN "finally:" ELSE "} finally {"), 0),
                 WriteStatements(lang, statements, b + 1)),
            IF lang = "python" THEN 1 ELSE 0)

\* the catch blocks written one after the other
RECURSIVE WriteCatchBlocks(_, _, _)
WriteCatchBlocks(lang, cbs, b) ==
    IF Len(cbs) = 0 THEN Wrote(<<>>, 0)
    ELSE Then(IF lang = "python" THEN CatchBlock2WritePy(Head(cbs), b)
              ELSE CatchBlock2WritePHP(Head(cbs), b),
              WriteCatchBlocks(lang, Tail(cbs), b))

\* TryCatchBlock.writepy
TryCatchBlockWritePy(t, b) ==
    Returns(
        Then(Wrote(Line(b, "try:"), 0),
        Then(WriteStatements("python", t.statements, b + 1),
        Then(WriteCatchBlocks("python", t.catchblocks, b),
             IF t.hasfinally THEN FinallyBlockWrite("python", t.finallyblock, b)
             ELSE Wrote(<<>>, 0)))), 1)

\* TryCatchBlock.writephp
TryCatchBlockWritePHP(t, b) ==
    Then(Wrote(Line(b, "try {"), 0),
    Then(WriteStatements("php", t.statements, b + 1),
    Then(WriteCatchBlocks("php", t.catchblocks, b),
    Then(IF t.hasfinally THEN FinallyBlockWrite("php", t.finallyblock, b)
         ELSE Wrote(<<>>, 0),
         Wrote(Line(b, "}"), 0)))))

\* as CatchSpecific, but each typed catch block is put in front of the list
CatchSpecificMut(cbs) ==
    LET sel[k \in 0..Len(cbs)] ==
            IF k = 0 THEN <<>>
            ELSE (IF cbs[k].tsclass # "" THEN <<cbs[k]>> ELSE <<>>) \o sel[k - 1]
    IN  sel[Len(cbs)]

\* the catchspecific list of TryCatchBlock.writets: the catch blocks that have
\* a tsclass, in the order of self._catchblocks
CatchSpecific(cbs) ==
    LET sel[k \in 0..Len(cbs)] ==
            IF k = 0 THEN <<>>
            ELSE sel[k - 1] \o (IF cbs[k].tsclass # "" THEN <<cbs[k]>> ELSE <<>>)
    IN  sel[Len(cbs)]

\* the catch blocks that have no tsclass

RECURSIVE CatchAlls(_)
CatchAlls(cbs) ==
    IF Len(cbs) = 0 THEN <<>>
    ELSE (IF Head(cbs).tsclass = "" THEN <<Head(cbs)>> ELSE <<>>) \o CatchAlls(Tail(cbs))

\* the catchvar TryCatchBlock.writets settles on: the name of the first bound
\* variable, "None" when no catch block binds one
CatchVar(cbs) ==
    IF \E i \in DOMAIN cbs : cbs[i].var # ""
    THEN cbs[CHOOSE i \in DOMAIN cbs :
                /\ cbs[i].var # ""
                /\ \A j \in DOMAIN cbs : j < i => cbs[j].var = ""].var
    ELSE "None"

\* the if / else-if chain of TryCatchBlock.writets, from the k-th typed arm on
RECURSIVE WriteInstanceofChain(_, _, _, _)
WriteInstanceofChain(specific, k, catchvar, b) ==
    IF k > Len(specific) THEN Wrote(<<>>, 0)
    ELSE Then(Wrote(Line(b + 1, (IF k = 1 THEN "if" ELSE "} else if") \o " (" \o catchvar
                                  \o " instanceof " \o specific[k].tsclass \o ") {"), 0),
         Then(WriteStatements("typescript", specific[k].statements, b + 2),
              WriteInstanceofChain(specific, k + 1, catchvar, b)))

\* as Rethrows, but the re-throw is left out
RethrowsMut(hascatchall) == FALSE

\* does the catch clause of TryCatchBlock.writets re-throw after the chain?
\* `if not catchall`
Rethrows(hascatchall) == ~hascatchall

\* TryCatchBlock.writets
TryCatchBlockWriteTS(t, b) ==
    LET cbs == t.catchblocks
        catchvar == CatchVar(cbs)
        catchspecific == CatchSpecific(cbs)
        catchalls == CatchAlls(cbs)
        hascatchall == Len(catchalls) > 0
        invalid ==
            \/ \E i \in DOMAIN cbs : cbs[i].var # "" /\ cbs[i].var # catchvar
            \/ Len(catchalls) > 1
            \/ (catchvar = "None" /\ Len(catchspecific) > 0)
        head == Then(Wrote(Line(b, "try {"), 0),
                     WriteStatements("typescript", t.statements, b + 1))
    IN  IF head.err # "" THEN head
        ELSE IF Len(cbs) = 0 THEN Failed(head.lines, "AssertionError")
        ELSE IF invalid THEN Failed(head.lines, "InvalidLogic")
        ELSE
          Then(head,
          Then(Wrote(Line(b, "} catch (" \o catchvar \o ") {"), 0),
          Then(IF Len(catchspecific) > 0
               THEN Then(WriteInstanceofChain(catchspecific, 1, catchvar, b),
                    Then(IF hascatchall
                         THEN Then(Wrote(Line(b + 1, "} else {"), 0),
                                   WriteStatements("typescript", catchalls[1].statements,
                                                   b + 2))
                         ELSE Wrote(<<>>, 0),
                    Then(Wrote(Line(b + 1, "}"), 0),
                         Wrote(IF Rethrows(hascatchall)
                               THEN Line(b + 1, "throw " \o catchvar \o ";")
                               ELSE <<>>, 0))))
               ELSE WriteStatements("typescript", catchalls[1].statements, b + 1),
          Then(IF t.hasfinally THEN FinallyBlockWrite("typescript", t.finallyblock, b)
               ELSE Wrote(<<>>, 0),
               Wrote(Line(b, "}"), 0)))))

\* TryCatchBlock.writepy / writets / writephp
TryCatchBlockWrite(lang, t, b) ==
    CASE lang = "python" -> TryCatchBlockWritePy(t, b)
      [] lang = "typescript" -> TryCatchBlockWriteTS(t, b)
      [] lang = "php" -> TryCatchBlockWritePHP(t, b)

(***************************************************************************)
(* paradox/generate/statements.py: Statements, the container every block   *)
(* and every Script is built on, and the statements it can hold.           *)
(***************************************************************************)
\* Statements(): no statements and no imports of its own
Statements == [statements |-> <<>>, importspy |-> <<>>, importsts |-> <<>>]

\* Comment(text) and BlankLine()
Comment(text) == [kind |-> "comment", text |-> text]
BlankLine == [kind |-> "blank"]

\* SimpleRaise(ctor, msg=, expr=); "" stands for a ctor or msg of None, NoExpr
\* for an expr of None
SimpleRaise(ctor, msg, e) == [kind |-> "raise", ctor |-> ctor, msg |-> msg, expr |-> e]

\* ConditionalBlock(expr): a Statements with alternates and an optional else
ConditionalBlock(e) ==
    [kind |-> "cond", expr |-> e, statements |-> <<>>, importspy |-> <<>>,
     importsts |-> <<>>, alternates |-> <<>>, haselse |-> FALSE, else_ |-> Statements]

\* a TryCatchBlock held by a container
TryCatchBlock ==
    [kind |-> "try", statements |-> <<>>, importspy |-> <<>>, importsts |-> <<>>,
     catchblocks |-> <<>>, hasfinally |-> FALSE, finallyblock |-> <<>>]

\* Comment.writepy / writets / writephp
CommentWrite(lang, stmt, b) ==
    Wrote(Line(b, (IF lang = "python" THEN "# " ELSE "// ") \o stmt.text), 0)

\* BlankLine.writepy / writets / writephp
BlankLineWrite(lang, stmt, b) == Wrote(Blank, 0)

\* the method SimpleRaise.writets calls on its expression argument
SimpleRaiseTSExprLang == "python"

\* SimpleRaise.writepy / writets / writephp
SimpleRaiseWrite(lang, stmt, b) ==
    LET ctor == IF stmt.ctor # "" THEN stmt.ctor
                ELSE CASE lang = "python" -> "Exception"
                       [] lang = "typescript" -> "Error"
                       [] lang = "php" -> "\\Exception"
        e == getExpr(stmt.expr, IF lang = "typescript" THEN SimpleRaiseTSExprLang ELSE lang)
        intro == IF lang = "python" THEN "raise " ELSE "throw new "
        end == IF lang = "python" THEN ")" ELSE ");"
    IN  IF stmt.msg = ""
        THEN IF stmt.expr = NoExpr THEN Failed(<<>>, "AssertionError")
             ELSE IF e.err # "" THEN Failed(<<>>, e.err)
             ELSE Wrote(Line(b, intro \o ctor \o "(" \o e.code \o end), 1)
        ELSE Wrote(Line(b, intro \o ctor \o "("
                             \o (IF lang = "php" THEN PhpStr(stmt.msg) ELSE PyRepr(stmt.msg))
                             \o end), 1)

\* a line that embeds the rendering of an expression: w.line0(f"...{expr}...")
ExprLine(lang, before, e, after, b) ==
    LET r == getExpr(e, lang)
    IN  IF r.err # "" THEN Failed(<<>>, r.err)
        ELSE Wrote(Line(b, before \o r.code \o after), 0)

RECURSIVE StatementsWrite(_, _, _)

\* `if not stmts.writepy(w.with_more_indent()): w.line1("pass")`
WriteOrPass(stmts, b) ==
    LET body == StatementsWrite("python", stmts, b + 1)
    IN  Then(body, Wrote(IF body.n = 0 THEN Line(b + 1, "pass") ELSE <<>>, 0))

\* the primary arm of ConditionalBlock.writepy: the statements are written
\* and what they return is not looked at
PrimaryArmPy(stmts, b) == StatementsWrite("python", stmts, b + 1)

\* the else-if arms of a ConditionalBlock, one after the other
RECURSIVE WriteAlternates(_, _, _)
WriteAlternates(lang, alts, b) ==
    IF Len(alts) = 0 THEN Wrote(<<>>, 0)
    ELSE Then(
           CASE lang = "python" ->
                    Then(ExprLine(lang, "elif ", Head(alts).expr, ":", b),
                         WriteOrPass(Head(alts).statements, b))
             [] lang = "typescript" ->
                    Then(ExprLine(lang, "} else if (", Head(alts).expr, ") {", b),
                         StatementsWrite(lang, Head(alts).statements, b + 1))
             [] lang = "php" ->
                    Then(ExprLine(lang, "} elseif (", Head(alts).expr, ") {", b),
                         StatementsWrite(lang, Head(alts).statements, b + 1)),
           WriteAlternates(lang, Tail(alts), b))

\* ConditionalBlock.writepy
ConditionalBlockWritePy(c, b) ==
    Returns(
        Then(ExprLine("python", "if ", c.expr, ":", b),
        Then(PrimaryArmPy(c.statements, b),
        Then(WriteAlternates("python", c.alternates, b),
        Then(IF c.haselse
             THEN Then(Wrote(Line(b, "else:"), 0), WriteOrPass(c.else_.statements, b))
             ELSE Wrote(<<>>, 0),
             Wrote(Blank, 0))))), 1)

\* ConditionalBlock.writets / writephp
ConditionalBlockWriteBraces(lang, c, b) ==
    Then(ExprLine(lang, "if (", c.expr, ") {", b),
    Then(StatementsWrite(lang, c.statements, b + 1),
    Then(WriteAlternates(lang, c.alternates, b),
    Then(IF c.haselse
         THEN Then(Wrote(Line(b, "} else {"), 0),
                   StatementsWrite(lang, c.else_.statements, b + 1))
         ELSE Wrote(<<>>, 0),
         Wrote(Line(b, "}") \o Blank, 0)))))

\* ConditionalBlock.writepy / writets / writephp
ConditionalBlockWrite(lang, c, b) ==
    IF lang = "python" THEN ConditionalBlockWritePy(c, b)
    ELSE ConditionalBlockWriteBraces(lang, c, b)

\* stmt.writepy(w) / writets(w) / writephp(w) for any statement
StatementWrite(lang, stmt, b) ==
    CASE stmt.kind = "comment" -> CommentWrite(lang, stmt, b)
      [] stmt.kind = "blank" -> BlankLineWrite(lang, stmt, b)
      [] stmt.kind = "raise" -> SimpleRaiseWrite(lang, stmt, b)
      [] stmt.kind = "cond" -> ConditionalBlockWrite(lang, stmt, b)
      [] stmt.kind = "try" -> TryCatchBlockWrite(lang, stmt, b)
      [] OTHER -> WriteStmt(lang, stmt, b)

\* Statements.writepy / writets / writephp: each statement in the order of
\* self._statements; writepy returns the sum of what the statements returned
StatementsWrite(lang, stmts, b) ==
    IF Len(stmts) = 0 THEN Wrote(<<>>, 0)
    ELSE Then(StatementWrite(lang, Head(stmts), b), StatementsWrite(lang, Tail(stmts), b))

(***************************************************************************)
(* paradox/typing.py: the types the model uses                             *)
(***************************************************************************)
CrossStr == [kind |-> "CrossStr"]
CrossNum == [kind |-> "CrossNum"]
CrossBool == [kind |-> "CrossBool"]
CrossAny == [kind |-> "CrossAny"]
CrossNull == [kind |-> "CrossNull"]
CrossOmit == [kind |-> "CrossOmit"]
CrossOptional(inner) == [kind |-> "CrossOptional", inner |-> inner]
CrossUnion(innertypes) == [kind |-> "CrossUnion", inner |-> innertypes]
\* CrossList(wrapped) and CrossDict(keytype, valuetype), as the types of
\* variables only: the model writes no type text for them
CrossList(wrapped) == [kind |-> "CrossList", wrapped |-> wrapped]
CrossDict(keytype, valuetype) ==
    [kind |-> "CrossDict", keytype |-> keytype, valuetype |-> valuetype]

\* the strings the model sorts, in the order Python's sorted() gives them
StrOrder == <<"One", "Two", "a", "alpha", "b", "beta">>
StrRank(str) == CHOOSE i \in DOMAIN StrOrder : StrOrder[i] = str

\* sorted(strs) for a set of strings
RECURSIVE SortedStrs(_)
SortedStrs(strs) ==
    IF strs = {} THEN <<>>
    ELSE LET first == CHOOSE x \in strs : \A y \in strs : StrRank(x) <= StrRank(y)
         IN  <<first>> \o SortedStrs(strs \ {first})

\* Python's == on literal values: a bool equals the int of the same value
PyNum(v) == IF v.t = "bool" THEN (IF v.v THEN 1 ELSE 0) ELSE v.v
PyEq(v, w) ==
    \/ v = w
    \/ v.t \in {"bool", "int"} /\ w.t \in {"bool", "int"} /\ PyNum(v) = PyNum(w)

\* set.add(v): a set holds no two values that are == to each other
PySetAdd(set, v) == IF \E x \in set : PyEq(x, v) THEN set ELSE set \cup {v}

\* CrossLiteral(variants): `variant is True or variant is False` goes to
\* _booleans, every other variant to _other
CrossLiteral(variants) ==
    LET booleans[k \in 0..Len(variants)] ==
            IF k = 0 THEN {}
            ELSE IF variants[k].t = "bool" THEN PySetAdd(booleans[k - 1], variants[k])
            ELSE booleans[k - 1]
        other[k \in 0..Len(variants)] ==
            IF k = 0 THEN {}
            ELSE IF variants[k].t = "bool" THEN other[k - 1]
            ELSE PySetAdd(other[k - 1], variants[k])
    IN  [kind |-> "CrossLiteral", booleans |-> booleans[Len(variants)],
         other |-> other[Len(variants)]]

\* _literal_to_key and the order of its tuples: group 1 for an int (a bool is
\* an int), group 2 for a str, then the value
LiteralKeyLess(v, w) ==
    LET group(x) == IF x.t \in {"int", "bool"} THEN 1 ELSE 2
    IN  \/ group(v) < group(w)
        \/ group(v) = 1 /\ group(w) = 1 /\ PyNum(v) < PyNum(w)
        \/ group(v) = 2 /\ group(w) = 2 /\ StrRank(v.v) < StrRank(w.v)

\* sorted(other, key=_literal_to_key)
RECURSIVE SortedByLiteralKey(_)
SortedByLiteralKey(other) ==
    IF other = {} THEN <<>>
    ELSE LET first == CHOOSE x \in other : \A y \in other \ {x} : LiteralKeyLess(x, y)
         IN  <<first>> \o SortedByLiteralKey(other \ {first})

\* as sorted_literals, but the other values come before the booleans
sorted_literalsMut(booleans, other) ==
    SortedByLiteralKey(other)
        \o (IF \E x \in booleans : PyEq(x, BoolVal(TRUE)) THEN <<BoolVal(TRUE)>> ELSE <<>>)
        \o (IF \E x \in booleans : PyEq(x, BoolVal(FALSE)) THEN <<BoolVal(FALSE)>> ELSE <<>>)

\* _sorted_literals(booleans, other): True, then False, then the other values
sorted_literals(booleans, other) ==
    (IF \E x \in booleans : PyEq(x, BoolVal(TRUE)) THEN <<BoolVal(TRUE)>> ELSE <<>>)
        \o (IF \E x \in booleans : PyEq(x, BoolVal(FALSE)) THEN <<BoolVal(FALSE)>> ELSE <<>>)
        \o SortedByLiteralKey(other)

\* repr() of a literal value
LiteralRepr(v) ==
    CASE v.t = "bool" -> (IF v.v THEN "True" ELSE "False")
      [] v.t = "int" -> ToString(v.v)
      [] v.t = "str" -> PyRepr(v.v)

\* maybe(t)
maybe(t) ==
    CASE t.kind = "CrossOptional" -> t
      [] t.kind = "CrossUnion" -> CrossUnion(t.inner \o <<CrossNull>>)
      [] OTHER -> CrossOptional(t)

\* omittable(t); CrossOptional.expandWith and CrossUnion.alsoWith are folded in
omittable(t) ==
    CASE t.kind = "CrossOptional" -> CrossUnion(<<t.inner, CrossNull, CrossOmit>>)
      [] t.kind = "CrossUnion" -> CrossUnion(t.inner \o <<CrossOmit>>)
      [] OTHER -> CrossUnion(<<t>> \o <<CrossOmit>>)

\* CrossType.getPyType: the type string, and whether it is to be quoted
RECURSIVE getPyType(_)
getPyType(t) ==
    CASE t.kind = "CrossStr" -> [code |-> "str", quote |-> FALSE]
      [] t.kind = "CrossNum" -> [code |-> "int", quote |-> FALSE]
      [] t.kind = "CrossBool" -> [code |-> "bool", quote |-> FALSE]
      [] t.kind = "CrossAny" -> [code |-> "Any", quote |-> FALSE]
      [] t.kind = "CrossNull" -> [code |-> "None", quote |-> FALSE]
      [] t.kind = "CrossOmit" -> [code |-> "builtins.ellipsis", quote |-> TRUE]
      [] t.kind = "CrossOptional" ->
            [code |-> "Optional[" \o getPyType(t.inner).code \o "]",
             quote |-> getPyType(t.inner).quote]
      [] t.kind = "CrossUnion" ->
            [code |-> "Union[" \o Join([i \in DOMAIN t.inner |-> getPyType(t.inner[i]).code],
                                       ", ") \o "]",
             quote |-> \E i \in DOMAIN t.inner : getPyType(t.inner[i]).quote]
      [] t.kind = "CrossLiteral" ->
            LET sorted == sorted_literals(t.booleans, t.other)
            IN  [code |-> "Literal[" \o Join([i \in DOMAIN sorted |-> LiteralRepr(sorted[i])],
                                               ", ") \o "]",
                 quote |-> FALSE]

\* CrossType.getQuotedPyType
getQuotedPyType(t) ==
    IF getPyType(t).quote THEN PyRepr(getPyType(t).code) ELSE getPyType(t).code

\* CrossType.getTSType()[0]
RECURSIVE getTSType(_)
getTSType(t) ==
    CASE t.kind = "CrossStr" -> "string"
      [] t.kind = "CrossNum" -> "number"
      [] t.kind = "CrossBool" -> "boolean"
      [] t.kind = "CrossAny" -> "any"
      [] t.kind = "CrossNull" -> "null"
      [] t.kind = "CrossOmit" -> "undefined"
      [] t.kind = "CrossOptional" -> getTSType(t.inner) \o " | null"
      [] t.kind = "CrossUnion" ->
            Join([i \in DOMAIN t.inner |-> getTSType(t.inner[i])], " | ")
      [] t.kind = "CrossLiteral" ->
            LET sorted == sorted_literals(t.booleans, t.other)
            IN  Join([i \in DOMAIN sorted |->
                        IF sorted[i].t = "bool" THEN (IF sorted[i].v THEN "true" ELSE "false")
                        ELSE LiteralRepr(sorted[i])], " | ")

\* CrossType.getPHPTypes: type is getPHPTypes()[0] ("" stands for None), doc
\* is getPHPTypes()[1], err is the exception it raises
RECURSIVE getPHPTypes(_)
getPHPTypes(t) ==
    CASE t.kind = "CrossStr" -> [type |-> "string", doc |-> "string", err |-> ""]
      [] t.kind = "CrossNum" -> [type |-> "int", doc |-> "int", err |-> ""]
      [] t.kind = "CrossBool" -> [type |-> "bool", doc |-> "boolean", err |-> ""]
      [] t.kind = "CrossAny" -> [type |-> "", doc |-> "mixed", err |-> ""]
      [] t.kind = "CrossNull" -> [type |-> "", doc |-> "null", err |-> ""]
      [] t.kind = "CrossOmit" -> [type |-> "", doc |-> "", err |-> "NotSupportedError"]
      [] t.kind = "CrossOptional" ->
            [type |-> "", doc |-> "null|" \o getPHPTypes(t.inner).doc,
             err |-> getPHPTypes(t.inner).err]
      [] t.kind = "CrossUnion" ->
            LET inner == [i \in DOMAIN t.inner |-> getPHPTypes(t.inner[i])]
            IN  [type |-> "", doc |-> Join([i \in DOMAIN inner |-> inner[i].doc], "|"),
                 err |-> FirstErr(inner)]
      [] t.kind = "CrossLiteral" ->
            LET subtypes == (IF t.booleans # {} THEN {"bool"} ELSE {})
                                \cup { IF v.t = "str" THEN "string" ELSE "int" : v \in t.other }
                subtypes2 == SelectSeq(<<"bool", "int", "string">>,
                                       LAMBDA name : name \in subtypes)
            IN  IF Len(subtypes2) = 1
                THEN [type |-> subtypes2[1], doc |-> subtypes2[1], err |-> ""]
                ELSE [type |-> "mixed", doc |-> Join(subtypes2, "|"), err |-> ""]

\* CrossType.getPHPTypes()[0] and getPHPTypes()[1] of a type PHP supports
getPHPType(t) == getPHPTypes(t).type
getPHPDocType(t) == getPHPTypes(t).doc

\* CrossType.getPyImports: (module, name) pairs; the name is "" for None
RECURSIVE getPyImports(_)
getPyImports(t) ==
    CASE t.kind = "CrossAny" -> {<<"typing", "Any">>}
      [] t.kind = "CrossOmit" -> {<<"builtins", "">>}
      [] t.kind = "CrossOptional" -> getPyImports(t.inner) \cup {<<"typing", "Optional">>}
      [] t.kind = "CrossUnion" ->
            UNION { getPyImports(t.inner[i]) : i \in DOMAIN t.inner }
                \cup {<<"typing", "Union">>}
      [] t.kind = "CrossLiteral" -> {<<"typing", "Literal">>}
      [] OTHER -> {}

(***************************************************************************)
(* paradox/expressions.py: getPanType                                      *)
(***************************************************************************)
\* getPanType() returned the type, or raised the exception
Typed(type) == [type |-> type, err |-> ""]
Untyped(exc) == [type |-> NoType, err |-> exc]

\* PanExpr.getPanType of the nodes that are no property or key access
RECURSIVE getPanType(_)
getPanType(e) ==
    CASE e.kind = "var" ->
            IF e.type = NoType THEN Untyped("TypeMissing") ELSE Typed(e.type)
      [] e.kind = "hardcodedexpr" ->
            IF e.type # NoType THEN Typed(e.type) ELSE Untyped("TypeMissing")
      [] e.kind = "call" -> Untyped("NotImplementedError")
      [] e.kind = "lit" ->
            (CASE e.val.t = "bool" -> Typed(CrossBool)
               [] e.val.t = "int" -> Typed(CrossNum)
               [] e.val.t = "str" -> Typed(CrossStr)
               [] e.val.t = "null" -> Typed(CrossNull))
      [] e.kind = "omit" -> Typed(CrossOmit)
      [] e.kind \in {"pyonly", "tsonly"} -> Untyped("Exception")
      [] e.kind \in {"andor", "not", "isnull", "compare"} -> Typed(CrossBool)
      [] e.kind = "length" -> Typed(CrossNum)
      [] e.kind = "await" -> getPanType(e.waitable)

\* PanExpr.getitem(idx, fallback): the node it returns, or the exception it
\* raises; idx is an expression, IntVal(n) or StrVal(s), fallback is NoExpr
\* when none is given
getitem(self, idx, fallback) ==
    LET t == getPanType(self)
    IN  IF IsExpr(idx)
        THEN IF t.err # "" THEN [node |-> NoExpr, err |-> t.err]
             ELSE IF t.type.kind = "CrossList"
             THEN [node |-> PanIndexAccess(self, idx, NoExpr), err |-> ""]
             ELSE [node |-> PanKeyAccess(self, idx, NoExpr), err |-> ""]
        ELSE IF idx.t = "int"
        THEN IF idx.v # 0 THEN [node |-> NoExpr, err |-> "AssertionError"]
             ELSE IF t.err # "" THEN [node |-> NoExpr, err |-> t.err]
             ELSE IF t.type.kind # "CrossList" THEN [node |-> NoExpr, err |-> "AssertionError"]
             ELSE [node |-> PanIndexAccess(self, idx, fallback), err |-> ""]
        ELSE IF t.err # "" THEN [node |-> NoExpr, err |-> t.err]
        ELSE IF t.type.kind \notin {"CrossDict", "CrossAny"}
        THEN [node |-> NoExpr, err |-> "AssertionError"]
        ELSE [node |-> PanKeyAccess(self, idx, fallback), err |-> ""]

\* _could_by_a_list(t)
RECURSIVE could_by_a_list(_)
could_by_a_list(t) ==
    CASE t.kind = "CrossUnion" -> \E i \in DOMAIN t.inner : could_by_a_list(t.inner[i])
      [] t.kind = "CrossOptional" -> could_by_a_list(t.inner)
      [] OTHER -> t.kind \in {"CrossList", "CrossAny", "CrossCustomType"}

\* PanExpr.getindex(idx, fallback)
getindex(self, idx, fallback) ==
    LET t == getPanType(self)
    IN  IF t.err # "" THEN [node |-> NoExpr, err |-> t.err]
        ELSE IF ~could_by_a_list(t.type) THEN [node |-> NoExpr, err |-> "InvalidLogic"]
        ELSE [node |-> PanIndexAccess(self, idx, fallback), err |-> ""]

(***************************************************************************)
(* paradox/generate/statements.py: FunctionSpec, for a function or method  *)
(* that is not async, not static and has no docstring and no TypeScript    *)
(* decorators                                                              *)
(***************************************************************************)
\* FunctionSpec(name, returntype, _isabstract=isabstract, _ismethod=ismethod)
FunctionSpec(name, returntype, isabstract, ismethod) ==
    [name |-> name, rettype |-> returntype, isconstructor |-> FALSE,
     isabstract |-> isabstract, ismethod |-> ismethod,
     pargs |-> <<>>, kwargs |-> <<>>, overloads |-> <<>>, decorators_py |-> <<>>,
     statements |-> <<>>]

\* FunctionSpec._getconstructor()
getconstructor ==
    [FunctionSpec("__init__", NoType, FALSE, TRUE) EXCEPT !.isconstructor = TRUE]

\* the exception FunctionSpec._addArg raises, "" when it returns: the two
\* assert statements
addArgRaises(f, default, allowomit) ==
    IF Len(f.overloads) # 0 THEN "AssertionError"
    ELSE IF ~allowomit /\ default.kind = "omit" THEN "AssertionError"
    ELSE ""

\* as addArg, but an omittable argument always gets the Omit default
addArgMut(f, target, name, crosstype, default, allowomit, nullable) ==
    IF addArgRaises(f, default, allowomit) # "" THEN f
    ELSE LET nulled == IF nullable THEN maybe(crosstype) ELSE crosstype
         IN  [f EXCEPT ![target] =
                 Append(@, [name |-> name,
                            crosstype |-> IF allowomit THEN omittable(nulled) ELSE nulled,
                            default |-> IF allowomit THEN PanOmit ELSE default])]

\* FunctionSpec._addArg: the spec after the call; target is "pargs" or
\* "kwargs", default is NoExpr for None
addArg(f, target, name, crosstype, default, allowomit, nullable) ==
    IF addArgRaises(f, default, allowomit) # "" THEN f
    ELSE LET nulled == IF nullable THEN maybe(crosstype) ELSE crosstype
         IN  [f EXCEPT ![target] =
                 Append(@, [name |-> name,
                            crosstype |-> IF allowomit THEN omittable(nulled) ELSE nulled,
                            default |-> IF allowomit /\ default.kind = "none"
                                        THEN PanOmit ELSE default])]

\* FunctionSpec.addPositionalArg; default is NoExpr for NO_DEFAULT
addPositionalArg(f, name, crosstype, default, allowomit) ==
    addArg(f, "pargs", name, crosstype, default, allowomit, FALSE)

\* FunctionSpec.addKWArg; default is NoExpr for NO_DEFAULT
addKWArg(f, name, sometype, default, nullable, allowomit) ==
    addArg(f, "kwargs", name, sometype, default, allowomit, nullable)

\* the arguments of an overload: those of the base in their order, with the
\* type the modifications give, without those the modifications map to None
\* (NoType here), and without defaults
RECURSIVE OverloadArgs(_, _)
OverloadArgs(source, modifications) ==
    IF Len(source) = 0 THEN <<>>
    ELSE LET arg == Head(source)
             rest == OverloadArgs(Tail(source), modifications)
         IN  IF arg.name \notin DOMAIN modifications
             THEN <<[name |-> arg.name, crosstype |-> arg.crosstype, default |-> NoExpr]>>
                      \o rest
             ELSE IF modifications[arg.name] = NoType THEN rest
             ELSE <<[name |-> arg.name, crosstype |-> modifications[arg.name],
                     default |-> NoExpr]>> \o rest

\* the FunctionSpec that addOverload builds
Overload(f, modifications, returntype) ==
    [FunctionSpec(f.name, returntype, FALSE, f.ismethod) EXCEPT
        !.decorators_py = <<"@typing.overload">>,
        !.statements = <<PanExprStatement(PanPyOnly("..."))>>,
        !.pargs = OverloadArgs(f.pargs, modifications),
        !.kwargs = OverloadArgs(f.kwargs, modifications)]

\* as addOverload, but the overload is put in front of self._overloads
addOverloadMut(f, modifications, returntype) ==
    [f EXCEPT !.overloads = <<Overload(f, modifications, returntype)>> \o @]

\* FunctionSpec.addOverload
addOverload(f, modifications, returntype) ==
    [f EXCEPT !.overloads = Append(@, Overload(f, modifications, returntype))]

\* Statements.also and Statements.alsoAssign
also(f, stmt) == [f EXCEPT !.statements = Append(@, stmt)]
alsoAssign(f, var, e) == also(f, AssignmentStatement(var, e))

\* one argument line of a function header
ArgLine(lang, arg, comma, b) ==
    LET phptypes == IF lang = "php" THEN getPHPTypes(arg.crosstype)
                    ELSE [type |-> "", doc |-> "", err |-> ""]
        argstr ==
            CASE lang = "python" -> arg.name \o ": " \o getQuotedPyType(arg.crosstype)
              [] lang = "typescript" -> arg.name \o ": " \o getTSType(arg.crosstype)
              [] lang = "php" ->
                    (IF phptypes.type # "" THEN phptypes.type \o " " ELSE "")
                        \o "$" \o arg.name
        hasdefault == arg.default.kind # "none"
        default == IF hasdefault THEN getExpr(arg.default, lang) ELSE Ok("", 0)
    IN  IF phptypes.err # "" THEN Failed(<<>>, phptypes.err)
        ELSE IF default.err # "" THEN Failed(<<>>, default.err)
        ELSE Wrote(Line(b + 1, argstr \o (IF hasdefault THEN " = " \o default.code ELSE "")
                                  \o comma), 0)

\* `for argname, crosstype, argdefault in self._pargs`, from the k-th on; PHP
\* writes no comma after the last argument
RECURSIVE ArgLines(_, _, _, _)
ArgLines(lang, pargs, k, b) ==
    IF k > Len(pargs) THEN Wrote(<<>>, 0)
    ELSE Then(ArgLine(lang, pargs[k],
                      IF lang = "php" /\ k = Len(pargs) THEN "" ELSE ",", b),
              ArgLines(lang, pargs, k + 1, b))

\* the statement loop of FunctionSpec.writepy: an abstract spec raises
\* InvalidLogic once its first statement is written
WriteBodyPy(f, b) ==
    IF f.isabstract /\ Len(f.statements) > 0
    THEN Then(WriteStmt("python", f.statements[1], b), Failed(<<>>, "InvalidLogic"))
    ELSE WriteStatements("python", f.statements, b)

\* FunctionSpec.writepy from the blank line on: decorators, header, body
WriteDefPy(f, b) ==
    LET body == WriteBodyPy(f, b + 1)
        decorators == [i \in DOMAIN f.decorators_py |-> Ind(b) \o f.decorators_py[i]]
    IN  Then(Wrote(Blank \o decorators
                     \o (IF f.isabstract THEN Line(b, "@abc.abstractmethod") ELSE <<>>)
                     \o Line(b, "def " \o f.name \o "(")
                     \o (IF f.ismethod THEN Line(b + 1, "self,") ELSE <<>>), 0),
        Then(ArgLines("python", f.pargs, 1, b),
        Then(Wrote(IF Len(f.kwargs) > 0 THEN Line(b + 1, "*,") ELSE <<>>, 0),
        Then(ArgLines("python", f.kwargs, 1, b),
        Then(Wrote(Line(b, IF f.rettype = NoType THEN ") -> None:"
                           ELSE ") -> " \o getQuotedPyType(f.rettype) \o ":"), 0),
        Then(body,
             Wrote(IF body.n = 0
                   THEN Line(b + 1, IF f.isabstract THEN "..." ELSE "pass")
                   ELSE <<>>, 0)))))))

\* `for overload in self._overloads: overload.writepy(w)`, from the k-th on
RECURSIVE WriteOverloadsPy(_, _, _)
WriteOverloadsPy(overloads, k, b) ==
    IF k > Len(overloads) THEN Wrote(<<>>, 0)
    ELSE Then(WriteDefPy(overloads[k], b), WriteOverloadsPy(overloads, k + 1, b))

\* FunctionSpec.writepy
FunctionSpecWritePy(f, b) ==
    Returns(Then(WriteOverloadsPy(f.overloads, 1, b), WriteDefPy(f, b)), 1)

\* FunctionSpec.writets
FunctionSpecWriteTS(f, b) ==
    LET modifiers == (IF f.isabstract THEN <<"abstract">> ELSE <<>>)
        withkind == IF f.ismethod
                    THEN (IF Len(modifiers) = 0 THEN <<"public">> ELSE modifiers)
                    ELSE modifiers \o <<"function">>
        name == IF f.isconstructor THEN "constructor" ELSE f.name
        rettype == IF f.isconstructor THEN ""
                   ELSE IF f.rettype = NoType THEN "void" ELSE getTSType(f.rettype)
    IN  IF f.isabstract /\ Len(f.statements) > 0 THEN Failed(<<>>, "InvalidLogic")
        ELSE IF Len(f.overloads) > 0 THEN Failed(<<>>, "NotImplementedError")
        ELSE
        Then(Wrote(Line(b, Join(withkind, " ") \o " " \o name \o "("), 0),
        Then(IF Len(f.kwargs) > 0 THEN Failed(<<>>, "NotSupportedError") ELSE Wrote(<<>>, 0),
        Then(ArgLines("typescript", f.pargs, 1, b),
             IF f.isabstract
             THEN Wrote(Line(b, IF rettype # "" THEN "): " \o rettype \o ";" ELSE ");"), 0)
             ELSE Then(Wrote(Line(b, IF rettype # "" THEN "): " \o rettype \o " {"
                                     ELSE ") {"), 0),
                  Then(WriteStatements("typescript", f.statements, b + 1),
                       Wrote(Line(b, "}"), 0))))))

\* FunctionSpec.writephp
FunctionSpecWritePHP(f, b) ==
    LET modifiers == (IF f.isabstract THEN <<"abstract">> ELSE <<>>)
                        \o (IF f.ismethod THEN <<"public">> ELSE <<>>)
        name == IF f.isconstructor THEN "__construct" ELSE f.name
        types == IF ~f.isconstructor /\ f.rettype # NoType THEN getPHPTypes(f.rettype)
                 ELSE [type |-> "", doc |-> "", err |-> ""]
        rettype == IF types.type # "" THEN ": " \o types.type ELSE ""
    IN  IF f.isabstract /\ Len(f.statements) > 0 THEN Failed(<<>>, "InvalidLogic")
        ELSE IF Len(f.overloads) > 0 THEN Failed(<<>>, "NotSupportedError")
        ELSE
        Then(Wrote(Line(b, Join(modifiers \o <<"function">>, " ") \o " " \o name \o "("), 0),
        Then(IF Len(f.kwargs) > 0 THEN Failed(<<>>, "NotSupportedError") ELSE Wrote(<<>>, 0),
        Then(ArgLines("php", f.pargs, 1, b),
        Then(IF types.err # "" THEN Failed(<<>>, types.err) ELSE Wrote(<<>>, 0),
             IF f.isabstract THEN Wrote(Line(b, ")" \o rettype \o ";"), 0)
             ELSE Then(Wrote(Line(b, ")" \o rettype \o " {"), 0),
                  Then(WriteStatements("php", f.statements, b + 1),
                       Wrote(Line(b, "}"), 0)))))))

\* FunctionSpec.writepy / writets / writephp
FunctionSpecWrite(lang, f, b) ==
    CASE lang = "python" -> FunctionSpecWritePy(f, b)
      [] lang = "typescript" -> FunctionSpecWriteTS(f, b)
      [] lang = "php" -> FunctionSpecWritePHP(f, b)

\* FunctionSpec.getImportsPy of a spec without overloads: the imports of the
\* argument types and of the return type (the statements the model uses
\* import nothing)
FunctionSpecImportsPy(f) ==
    (IF f.isabstract THEN {<<"abc", "">>} ELSE {})
        \cup UNION { getPyImports(f.pargs[i].crosstype) : i \in DOMAIN f.pargs }
        \cup UNION { getPyImports(f.kwargs[i].crosstype) : i \in DOMAIN f.kwargs }
        \cup (IF f.rettype = NoType THEN {} ELSE getPyImports(f.rettype))

(***************************************************************************)
(* paradox/generate/statements.py: InterfaceSpec                           *)
(***************************************************************************)
\* InterfaceSpec(name, tsexport=tsexport)
InterfaceSpec(name, tsexport) == [name |-> name, properties |-> <<>>, tsexport |-> tsexport]

\* InterfaceSpec.addProperty
InterfaceSpecAddProperty(i, name, type) ==
    [i EXCEPT !.properties = Append(@, [name |-> name, type |-> type])]

\* as InterfaceSpecWrite, but writephp raises as writepy does
InterfaceSpecWriteMut(lang, i, b) ==
    CASE lang \in {"python", "php"} -> Failed(<<>>, "NotSupportedError")
      [] lang = "typescript" ->
            Wrote(Line(b, (IF i.tsexport THEN "export " ELSE "")
                              \o "interface " \o i.name \o " {")
                    \o [k \in DOMAIN i.properties |->
                           Ind(b + 1) \o i.properties[k].name \o ": "
                               \o getTSType(i.properties[k].type) \o ";"]
                    \o Line(b, "}"), 0)

\* InterfaceSpec.writepy / writets / writephp
InterfaceSpecWrite(lang, i, b) ==
    CASE lang = "python" -> Failed(<<>>, "NotSupportedError")
      [] lang = "typescript" ->
            Wrote(Line(b, (IF i.tsexport THEN "export " ELSE "")
                              \o "interface " \o i.name \o " {")
                    \o [k \in DOMAIN i.properties |->
                           Ind(b + 1) \o i.properties[k].name \o ": "
                               \o getTSType(i.properties[k].type) \o ";"]
                    \o Line(b, "}"), 0)
      [] lang = "php" ->
            Wrote(Line(b, "interface " \o i.name \o " {") \o Line(b, "}"), 0)

(***************************************************************************)
(* paradox/generate/statements.py: ClassSpec                               *)
(***************************************************************************)
\* ClassSpec(name): no properties, no parent classes
ClassSpec(name) ==
    [name |-> name, properties |-> <<>>, initargs |-> <<>>, initdefaults |-> <<>>,
     pybases |-> <<>>, pybases_args_kwargs |-> FALSE, tsbase |-> "", phpbase |-> ""]

\* as addProperty, but an initarg is put in front of self._initargs
addPropertyMut(c, name, type, initarg, default) ==
    [c EXCEPT
        !.initargs = IF initarg
                     THEN <<[name |-> name, crosstype |-> type, default |-> default]>> \o @
                     ELSE @,
        !.initdefaults = IF ~initarg /\ default.kind # "none"
                         THEN Append(@, [name |-> name, default |-> default,
                                         crosstype |-> type])
                         ELSE @,
        !.properties = Append(@, [propname |-> name, proptype |-> type,
                                  propdefault |-> default])]

\* self._propnames: the names addProperty has added
propnames(c) == { c.properties[i].propname : i \in DOMAIN c.properties }

\* as addProperty, but the check for a name declared before is missing
addPropertyUnchecked(c, name, type, initarg, default) ==
    [c EXCEPT
        !.initargs = IF initarg
                     THEN Append(@, [name |-> name, crosstype |-> type, default |-> default])
                     ELSE @,
        !.initdefaults = IF ~initarg /\ default.kind # "none"
                         THEN Append(@, [name |-> name, default |-> default,
                                         crosstype |-> type])
                         ELSE @,
        !.properties = Append(@, [propname |-> name, proptype |-> type,
                                  propdefault |-> default])]

\* the exception ClassSpec.addProperty raises, "" when it returns
addPropertyRaises(c, name) == IF name \in propnames(c) THEN "InvalidLogic" ELSE ""

\* ClassSpec.addProperty: the class after the call; default is NoExpr for
\* NO_DEFAULT.  The check of the name comes before every assignment
addProperty(c, name, type, initarg, default) ==
    IF name \in propnames(c) THEN c
    ELSE
    [c EXCEPT
        !.initargs = IF initarg
                     THEN Append(@, [name |-> name, crosstype |-> type, default |-> default])
                     ELSE @,
        !.initdefaults = IF ~initarg /\ default.kind # "none"
                         THEN Append(@, [name |-> name, default |-> default,
                                         crosstype |-> type])
                         ELSE @,
        !.properties = Append(@, [propname |-> name, proptype |-> type,
                                  propdefault |-> default])]

\* `[d for d in initdefaults if not isinstance(d[1], PanLiteral)]`
RECURSIVE NotLiteral(_)
NotLiteral(initdefaults) ==
    IF Len(initdefaults) = 0 THEN <<>>
    ELSE (IF Head(initdefaults).default.kind = "lit" THEN <<>> ELSE <<Head(initdefaults)>>)
            \o NotLiteral(Tail(initdefaults))

\* as InitDefaultsFor, but without the filter for TypeScript and PHP
InitDefaultsForMut(c, lang) == c.initdefaults

\* the defaults the constructor of a target assigns: TypeScript and PHP
\* initialize literal defaults in the class body
InitDefaultsFor(c, lang) ==
    IF lang \in {"typescript", "php"} THEN NotLiteral(c.initdefaults) ELSE c.initdefaults

\* as InitDefaultsAfter, but the literal defaults are removed from
\* self._initdefaults itself
InitDefaultsAfterMut(c, lang) == InitDefaultsFor(c, lang)

\* self._initdefaults after _getInitSpec(lang) returned: the list is only
\* read, the filtered list is a new list bound to a local name
InitDefaultsAfter(c, lang) == c.initdefaults

\* `for name, crosstype, pandefault in self._initargs`, from the k-th on: a
\* positional argument and the assignment of it to the property
RECURSIVE AddInitArgs(_, _, _)
AddInitArgs(initspec, initargs, k) ==
    IF k > Len(initargs) THEN initspec
    ELSE AddInitArgs(
            alsoAssign(addPositionalArg(initspec, initargs[k].name, initargs[k].crosstype,
                                        initargs[k].default, FALSE),
                       PanProp(initargs[k].name, NoExpr), PanVar(initargs[k].name)),
            initargs, k + 1)

\* `for name, default, crosstype in initdefaults`, from the k-th on
RECURSIVE AddInitDefaults(_, _, _)
AddInitDefaults(initspec, initdefaults, k) ==
    IF k > Len(initdefaults) THEN initspec
    ELSE AddInitDefaults(
            alsoAssign(initspec, PanProp(initdefaults[k].name, NoExpr),
                       initdefaults[k].default),
            initdefaults, k + 1)

\* the call_parent_constructor statement of ClassSpec._getInitSpec
CallParentConstructor(c) ==
    HardCodedStatement(
        IF c.pybases_args_kwargs THEN StrVal("super().__init__(*args, **kwargs)")
        ELSE IF Len(c.pybases) > 0 THEN StrVal("super().__init__()") ELSE NoneVal,
        IF c.tsbase # "" THEN StrVal("super();") ELSE NoneVal,
        IF c.phpbase # "" THEN StrVal("parent::__construct();") ELSE NoneVal)

\* as getInitSpec, but without the call of the parent constructor
getInitSpecMut(c, lang) ==
    LET initdefaults == InitDefaultsFor(c, lang)
        withargs == AddInitArgs(getconstructor, c.initargs, 1)
        withstar == IF c.pybases_args_kwargs /\ lang = "python"
                    THEN addPositionalArg(addPositionalArg(withargs, "*args", CrossAny, NoExpr, FALSE),
                                          "**kwargs", CrossAny, NoExpr, FALSE)
                    ELSE withargs
    IN  [none |-> Len(c.initargs) = 0 /\ Len(initdefaults) = 0,
         spec |-> AddInitDefaults(withstar, initdefaults, 1)]

\* as getInitSpec, but without the early `return None`
getInitSpecAlways(c, lang) ==
    LET initdefaults == InitDefaultsFor(c, lang)
        withargs == AddInitArgs(getconstructor, c.initargs, 1)
        withstar == IF c.pybases_args_kwargs /\ lang = "python"
                    THEN addPositionalArg(addPositionalArg(withargs, "*args", CrossAny, NoExpr, FALSE),
                                          "**kwargs", CrossAny, NoExpr, FALSE)
                    ELSE withargs
        withcall == also(withstar, CallParentConstructor(c))
    IN  [none |-> FALSE,
         spec |-> AddInitDefaults(withcall, initdefaults, 1)]

\* ClassSpec._getInitSpec: none is true when it returns None
getInitSpec(c, lang) ==
    LET initdefaults == InitDefaultsFor(c, lang)
        withargs == AddInitArgs(getconstructor, c.initargs, 1)
        withstar == IF c.pybases_args_kwargs /\ lang = "python"
                    THEN addPositionalArg(addPositionalArg(withargs, "*args", CrossAny, NoExpr, FALSE),
                                          "**kwargs", CrossAny, NoExpr, FALSE)
                    ELSE withargs
        withcall == also(withstar, CallParentConstructor(c))
    IN  [none |-> Len(c.initargs) = 0 /\ Len(initdefaults) = 0,
         spec |-> AddInitDefaults(withcall, initdefaults, 1)]

\* the property lines of a class body
PropertyLines(lang, c, b) ==
    LET line(prop) ==
            LET assign == IF prop.propdefault.kind = "lit"
                          THEN " = " \o getExpr(prop.propdefault, lang).code ELSE ""
            IN  CASE lang = "python" ->
                        Line(b + 1, prop.propname \o ": " \o getQuotedPyType(prop.proptype))
                  [] lang = "typescript" ->
                        Line(b + 1, "public " \o prop.propname \o ": "
                                        \o getTSType(prop.proptype) \o assign \o ";")
                  [] lang = "php" ->
                        Line(b + 1, "/** @var " \o getPHPDocType(prop.proptype) \o " */")
                            \o Line(b + 1, "public $" \o prop.propname \o assign \o ";")
        lines[k \in 0..Len(c.properties)] ==
            IF k = 0 THEN <<>> ELSE lines[k - 1] \o line(c.properties[k])
    IN  lines[Len(c.properties)]

\* ClassSpec.writepy, for a class without docstring, methods and remarks
ClassSpecWritePy(c, b) ==
    LET parents == IF Len(c.pybases) > 0 THEN "(" \o Join(c.pybases, ", ") \o ")" ELSE ""
        initspec == getInitSpec(c, "python")
        havebody == Len(c.properties) > 0 \/ ~initspec.none
        all == Then(Wrote(Line(b, "class " \o c.name \o parents \o ":")
                            \o PropertyLines("python", c, b)
                            \o (IF Len(c.properties) > 0 THEN Blank ELSE <<>>), 0),
               Then(IF initspec.none THEN Wrote(<<>>, 0)
                    ELSE Then(FunctionSpecWritePy(initspec.spec, b + 1), Wrote(Blank, 0)),
                    Wrote(IF havebody THEN <<>> ELSE Line(b + 1, "pass"), 0)))
    IN  Returns(all, 1)

\* ClassSpec.writets and ClassSpec.writephp, for a class without docstring,
\* methods and remarks
ClassSpecWriteBraces(lang, c, b) ==
    LET base == IF lang = "typescript" THEN c.tsbase ELSE c.phpbase
        extends == IF base # "" THEN " extends " \o base ELSE ""
        constructor == getInitSpec(c, lang)
        needemptyline == Len(c.properties) > 0
    IN  Then(Wrote(Line(b, "class " \o c.name \o extends \o " {")
                     \o PropertyLines(lang, c, b), 0),
        Then(IF constructor.none THEN Wrote(<<>>, 0)
             ELSE Then(Wrote(IF needemptyline THEN Blank ELSE <<>>, 0),
                       IF lang = "typescript"
                       THEN FunctionSpecWriteTS(constructor.spec, b + 1)
                       ELSE FunctionSpecWritePHP(constructor.spec, b + 1)),
             Wrote(Line(b, "}"), 0)))

\* ClassSpec.writepy / writets / writephp
ClassSpecWrite(lang, c, b) ==
    IF lang = "python" THEN ClassSpecWritePy(c, b) ELSE ClassSpecWriteBraces(lang, c, b)

\* ClassSpec.getImportsPy for a class without imports of its own; the
\* properties and the constructor of a class import nothing in TypeScript
\* and PHP
ClassSpecImportsPy(c) ==
    (IF getInitSpec(c, "python").none THEN {}
     ELSE FunctionSpecImportsPy(getInitSpec(c, "python").spec))
        \cup UNION { getPyImports(c.properties[i].proptype) : i \in DOMAIN c.properties }

(***************************************************************************)
(* paradox/output: Script.get_source_code for a script that holds one      *)
(* ClassSpec, no file comments and no new types.  The text is modelled as  *)
(* the sequence of its lines.  _write_to_writer passes the script's        *)
(* content to write_top_imports as the thing to take the imports from.     *)
(***************************************************************************)
\* paradox.output.python.write_top_imports, for imports from typing only
write_top_imports(lang, c) ==
    IF lang = "python" /\ ClassSpecImportsPy(c) # {}
    THEN Line(0, "from typing import Any") \o Blank
    ELSE <<>>

\* Script.get_source_code(lang=lang)
get_source_code(c, lang) ==
    Then(Wrote(IF lang = "php" THEN Line(0, "<?php") \o Blank ELSE <<>>, 0),
    Then(Wrote(write_top_imports(lang, c), 0),
         ClassSpecWrite(lang, c, 0)))

(***************************************************************************)
(* paradox/output: a Script whose content is built statement by statement. *)
(* A Script is modelled by its _content, a Statements; it has no file      *)
(* comments, no PHP namespace and no new types.                            *)
(***************************************************************************)
\* Script()
Script == Statements

\* alsoImportPy(module, names): one (module, None) when names is None, else
\* one (module, name) per name; "" stands for None
alsoImportPy(stmts, module, hasnames, names) ==
    [stmts EXCEPT !.importspy =
        @ \o (IF hasnames THEN [i \in DOMAIN names |-> [module |-> module, name |-> names[i]]]
              ELSE <<[module |-> module, name |-> ""]>>)]

\* alsoImportTS(module, names): one (module, names)
alsoImportTS(stmts, module, hasnames, names) ==
    [stmts EXCEPT !.importsts =
        @ \o <<[module |-> module, hasnames |-> hasnames, names |-> names]>>]

\* Statements.getImportsPy / getImportsTS: the container's own imports, then
\* those of each statement in order.  A simple statement of the model yields
\* none; a block is a Statements and yields its own and those of the
\* statements in its _statements.
RECURSIVE getImports(_, _)
getImports(stmts, field) ==
    LET kids[k \in 0..Len(stmts.statements)] ==
            IF k = 0 THEN <<>>
            ELSE kids[k - 1] \o (IF stmts.statements[k].kind \in {"cond", "try"}
                                 THEN getImports(stmts.statements[k], field)
                                 ELSE <<>>)
    IN  stmts[field] \o kids[Len(stmts.statements)]
getImportsPy(stmts) == getImports(stmts, "importspy")
getImportsTS(stmts) == getImports(stmts, "importsts")

\* as write_top_imports_py, but each requirement is written as it comes
write_top_imports_pyMut(top) ==
    LET imports == getImportsPy(top)
    IN  [i \in DOMAIN imports |->
            IF imports[i].name = "" THEN "import " \o imports[i].module
            ELSE "from " \o imports[i].module \o " import " \o imports[i].name]
        \o (IF Len(imports) > 0 THEN Blank ELSE <<>>)

\* paradox.output.python.write_top_imports
write_top_imports_py(top) ==
    LET imports == getImportsPy(top)
        direct_imports == { imports[i].module : i \in { j \in DOMAIN imports :
                                                          imports[j].name = "" } }
        named_modules == { imports[i].module : i \in { j \in DOMAIN imports :
                                                         imports[j].name # "" } }
        named_imports(module) ==
            { imports[i].name : i \in { j \in DOMAIN imports :
                                          /\ imports[j].module = module
                                          /\ imports[j].name # "" } }
        direct == SortedStrs(direct_imports)
        named == SortedStrs(named_modules)
    IN  [i \in DOMAIN direct |-> "import " \o direct[i]]
        \o (IF direct_imports # {} THEN Blank ELSE <<>>)
        \o [i \in DOMAIN named |->
              "from " \o named[i] \o " import "
                  \o Join(SortedStrs(named_imports(named[i])), ", ")]
        \o (IF named_modules # {} THEN Blank ELSE <<>>)

\* the keys of imports_by_module in the order a dict iterates over them: the
\* order in which each module was first met
RECURSIVE ModulesInInsertionOrder(_)
ModulesInInsertionOrder(imports) ==
    IF Len(imports) = 0 THEN <<>>
    ELSE LET front == ModulesInInsertionOrder(SubSeq(imports, 1, Len(imports) - 1))
             module == imports[Len(imports)].module
         IN  IF \E i \in DOMAIN front : front[i] = module THEN front
             ELSE front \o <<module>>

\* paradox.output.typescript.write_top_imports
write_top_imports_ts(top) ==
    LET imports == getImportsTS(top)
        modules == ModulesInInsertionOrder(imports)
        bare(module) == \E i \in DOMAIN imports :
                            imports[i].module = module /\ ~imports[i].hasnames
        strnames(module) ==
            UNION { { imports[i].names[k] : k \in DOMAIN imports[i].names } :
                    i \in { j \in DOMAIN imports :
                              imports[j].module = module /\ imports[j].hasnames } }
        lines(module) ==
            (IF bare(module) THEN <<"import '" \o module \o "';">> ELSE <<>>)
            \o (LET sorted == SortedStrs(strnames(module))
                IN  [k \in DOMAIN sorted |->
                        "import {" \o sorted[k] \o "} from '" \o module \o "';"])
        all[k \in 0..Len(modules)] ==
            IF k = 0 THEN <<>> ELSE all[k - 1] \o lines(modules[k])
    IN  all[Len(modules)] \o (IF Len(modules) > 0 THEN Blank ELSE <<>>)

\* paradox.output.php.write_top_imports: nothing a Script can hold yields a
\* PHP import (there is no alsoImportPHP), so the dict stays empty
write_top_imports_php(top) == <<>>

\* Script._write_to_writer: what is written to the writer, and the exception
\* that ended the writing (if any)
write_to_writer(lang, s, pretty) ==
    IF pretty THEN Failed(<<>>, "NotImplementedError")
    ELSE Then(Wrote(IF lang = "php" THEN Line(0, "<?php") \o Blank ELSE <<>>, 0),
         Then(Wrote(CASE lang = "python" -> write_top_imports_py(s)
                      [] lang = "typescript" -> write_top_imports_ts(s)
                      [] lang = "php" -> write_top_imports_php(s), 0),
              StatementsWrite(lang, s.statements, 0)))

\* Script.get_source_code(lang=lang) for a script built statement by statement
Script_get_source_code(lang, s) == write_to_writer(lang, s, FALSE)

\* no type text rendered yet
NotTyped == [python |-> "", typescript |-> "", phplang |-> "", phpdoc |-> ""]

(***************************************************************************)
(* Building and rendering expressions.                                     *)
(***************************************************************************)
\* nothing rendered yet
NotRendered == [l \in Langs |-> Raise("unrendered")]
\* getPanType() not called yet
NotAsked == Untyped("unasked")
NoLines == [l \in Langs |-> <<>>]

\* the expressions a helper is first applied to
Leaves ==
    { PanVar("z"), PanLiteral(IntVal(5)), PanProp("p", NoExpr),
      PanCall(StrVal("f"), <<>>) }

\* how many helper calls are nested in an expression
RECURSIVE Depth(_)
Depth(e) ==
    CASE e.kind \in {"var", "lit", "omit", "hardcodedexpr", "pyonly", "tsonly"} -> 0
      [] e.kind = "prop" -> IF e.owner.kind = "none" THEN 0 ELSE 1 + Depth(e.owner)
      [] e.kind = "call" -> IF IsExpr(e.target) THEN Depth(e.target) ELSE 0
      [] e.kind \in {"key", "index"} -> 1 + Depth(e.target)
      [] e.kind = "andor" -> 1 + Depth(e.arguments[1])
      [] e.kind = "not" -> 1 + Depth(e.arg)
      [] e.kind \in {"length", "isnull"} -> 1 + Depth(e.target)
      [] e.kind = "compare" -> 1 + (IF Depth(e.arg1) > Depth(e.arg2)
                                    THEN Depth(e.arg1) ELSE Depth(e.arg2))
      [] e.kind = "await" -> 1 + Depth(e.waitable)
      [] e.kind = "notomit" -> 1 + Depth(e.expr)

ExprUntouched ==
    UNCHANGED <<tryblock, tryout, cls, clsout, declared, repeated, raised, func, funcout,
                iface, ifaceout, script, scriptout, dest, lit,
                littext>>

\* a helper returned newexpr, built around expr
Built(newexpr) ==
    /\ Depth(expr) < MaxDepth
    /\ expr' = newexpr
    /\ rendered' = NotRendered
    /\ appendout' = NoLines
    /\ pantype' = NotAsked
    /\ ExprUntouched

\* not_(expr)
not_ == Built(PanNot(expr))

\* isnull(expr)
isnull == Built(PanIsNullExpr(expr))

\* expr.lengthexpr()
lengthexpr == Built(PanLengthExpr(expr))

\* await_(expr)
await_ == Built(PanAwait(expr))

\* expr.getprop("q")
getprop == Built(PanProp("q", expr))

\* PanCall(expr.getprop("m"), pan(5))
callmethod == Built(PanCall(PanProp("m", expr), <<PanLiteral(IntVal(5))>>))

\* PanKeyAccess(expr, "k") and PanKeyAccess(expr, "k", fallback)
keyaccess ==
    \E fallback \in {NoExpr, PanLiteral(IntVal(75)), PanVar("d")} :
        Built(PanKeyAccess(expr, StrVal("k"), fallback))

\* or_(expr), or_(expr, y), and_(expr), and_(expr, y)
andor ==
    \E operation \in {"OR", "AND"}, others \in {<<>>, <<PanVar("y")>>} :
        Built(PanAndOr(operation, <<expr>> \o others))

\* PanCompare(operation, expr, y) and PanCompare(operation, y, expr);
\* exacteq_() is the "===" case
compare ==
    \E operation \in {"===", "<", ">"}, first \in BOOLEAN :
        Built(IF first THEN PanCompare(operation, expr, PanVar("y"))
              ELSE PanCompare(operation, PanVar("y"), expr))

\* expr.getPyExpr(), expr.getTSExpr() and expr.getPHPExpr()
RenderExpr ==
    /\ rendered = NotRendered
    /\ rendered' = [l \in Langs |-> getExpr(expr, l)]
    /\ UNCHANGED <<expr, appendout, pantype>>
    /\ ExprUntouched

\* ListAppendStatement(expr, pan(True)) written for each target that renders
WriteListAppend ==
    /\ rendered # NotRendered
    /\ appendout = NoLines
    /\ appendout' =
          [l \in Langs |->
              IF rendered[l].err # "" THEN <<>>
              ELSE <<ListAppendStatementWrite(l, rendered[l],
                                              getExpr(PanLiteral(BoolVal(TRUE)), l))>>]
    /\ UNCHANGED <<expr, rendered, pantype>>
    /\ ExprUntouched

\* TryCatchBlock(), with one statement in the try body
NoTry ==
    [statements |-> <<PanExprStatement(PanCall(StrVal("do_something"), <<>>))>>,
     catchblocks |-> <<>>, hasfinally |-> FALSE, finallyblock |-> <<>>]
NotWritten == [l \in Langs |-> Failed(<<>>, "unrendered")]
NoClass == ClassSpec("")
NoFunc == FunctionSpec("", NoType, FALSE, FALSE)
NoInterface == InterfaceSpec("", FALSE)

InitExpr ==
    /\ expr \in Leaves
    /\ rendered = NotRendered
    /\ appendout = NoLines
    /\ tryblock = NoTry
    /\ tryout = NotWritten
    /\ cls = NoClass
    /\ clsout = NotWritten
    /\ declared = <<>>
    /\ repeated = FALSE
    /\ raised = ""
    /\ func = NoFunc
    /\ funcout = NotWritten
    /\ pantype = NotAsked
    /\ iface = NoInterface
    /\ ifaceout = NotWritten
    /\ script = Script
    /\ scriptout = NotWritten
    /\ dest = NoLines["python"]
    /\ lit = <<>>
    /\ littext = NotTyped

NextExpr ==
    \/ not_
    \/ isnull
    \/ lengthexpr
    \/ await_
    \/ getprop
    \/ callmethod
    \/ keyaccess
    \/ andor
    \/ compare
    \/ RenderExpr
    \/ WriteListAppend

SpecExpr == InitExpr /\ [][NextExpr]_vars


(***************************************************************************)
(* Building and rendering a try block.                                     *)
(***************************************************************************)
\* the names a catch block may bind ("" : no variable) and the exception
\* classes it may name ("" : no class, a catch-all)
CatchVars == {"", "e", "err"}
CatchClasses == {"", "SomeException", "LogicException"}

TryUntouched ==
    UNCHANGED <<expr, rendered, appendout, cls, clsout, declared, repeated, raised, func,
                funcout, pantype, iface, ifaceout, script, scriptout, dest, lit,
                littext>>

\* with tryblock.withCatchBlock2(var, pyclass=c, tsclass=c, phpclass=c) as cb:
\*     cb.also(PanCall("handle<i>"))
withCatchBlock2 ==
    /\ Len(tryblock.catchblocks) < MaxCatch
    /\ \E var \in CatchVars, class \in CatchClasses :
          LET i == Len(tryblock.catchblocks) + 1
              body == <<PanExprStatement(
                          PanCall(StrVal("handle" \o ToString(i)), <<>>))>>
          IN  tryblock' = [tryblock EXCEPT !.catchblocks =
                              Append(@, CatchBlock2(var, class, class, class, body))]
    /\ tryout' = NotWritten
    /\ TryUntouched

\* with tryblock.withFinallyBlock() as fb: fb.also(PanCall("do_cleanup"))
withFinallyBlock ==
    /\ ~tryblock.hasfinally
    /\ tryblock' = [tryblock EXCEPT
                      !.hasfinally = TRUE,
                      !.finallyblock =
                          <<PanExprStatement(PanCall(StrVal("do_cleanup"), <<>>))>>]
    /\ tryout' = NotWritten
    /\ TryUntouched

\* tryblock.writepy(w), .writets(w) and .writephp(w) on fresh writers
RenderTry ==
    /\ tryout = NotWritten
    /\ tryout' = [l \in Langs |-> TryCatchBlockWrite(l, tryblock, 0)]
    /\ UNCHANGED tryblock
    /\ TryUntouched

InitTry ==
    /\ expr = PanVar("z")
    /\ rendered = NotRendered
    /\ appendout = NoLines
    /\ tryblock = NoTry
    /\ tryout = NotWritten
    /\ cls = NoClass
    /\ clsout = NotWritten
    /\ declared = <<>>
    /\ repeated = FALSE
    /\ raised = ""
    /\ func = NoFunc
    /\ funcout = NotWritten
    /\ pantype = NotAsked
    /\ iface = NoInterface
    /\ ifaceout = NotWritten
    /\ script = Script
    /\ scriptout = NotWritten
    /\ dest = NoLines["python"]
    /\ lit = <<>>
    /\ littext = NotTyped

NextTry ==
    \/ withCatchBlock2
    \/ withFinallyBlock
    \/ RenderTry

SpecTry == InitTry /\ [][NextTry]_vars

(***************************************************************************)
(* Properties of the TypeScript rendering of a try block.                  *)
(***************************************************************************)
\* the try block was written for TypeScript without an exception
TSTryWritten == tryout # NotWritten /\ tryout["typescript"].err = ""
TSTryLines == tryout["typescript"].lines

HasTypedArm == \E i \in DOMAIN tryblock.catchblocks : tryblock.catchblocks[i].tsclass # ""
HasCatchAll == \E i \in DOMAIN tryblock.catchblocks : tryblock.catchblocks[i].tsclass = ""

\* where a line is in a text (0: nowhere)
PosOf(lines, line) ==
    IF \E i \in DOMAIN lines : lines[i] = line
    THEN CHOOSE i \in DOMAIN lines : lines[i] = line /\ \A j \in 1..(i - 1) : lines[j] # line
    ELSE 0

\* every `throw <name>;` line a catch clause could hold
ThrowLines == { Ind(k) \o "throw " \o v \o ";" : k \in 0..3, v \in CatchVars \cup {"None"} }

\* the line that ends the catch clause: the finally clause, or the end of the try
AfterCatchLine == IF tryblock.hasfinally THEN "} finally {" ELSE "}"

\* C2: in the TypeScript rendering of a try block with at least one typed
\* catch arm, `throw <bound variable>;` is written right after the closed
\* if / else-if chain, inside the catch clause and before the finally clause,
\* exactly when no arm is a catch-all; with a catch-all no throw is written
C2_RethrowIffNoCatchAll ==
    (TSTryWritten /\ HasTypedArm) =>
        LET throwline == Ind(1) \o "throw " \o CatchVar(tryblock.catchblocks) \o ";"
            at == PosOf(TSTryLines, throwline)
        IN  IF HasCatchAll
            THEN \A i \in DOMAIN TSTryLines : TSTryLines[i] \notin ThrowLines
            ELSE /\ at > 1
                 /\ at < Len(TSTryLines)
                 /\ TSTryLines[at - 1] = Ind(1) \o "}"
                 /\ TSTryLines[at + 1] = AfterCatchLine
                 /\ PosOf(TSTryLines,
                          "} catch (" \o CatchVar(tryblock.catchblocks) \o ") {") < at
                 /\ \A i \in DOMAIN TSTryLines :
                        TSTryLines[i] \in ThrowLines => i = at

\* C2 witnesses: a typed arm and no catch-all, rendered (the throw is there)
C2_Witness ==
    /\ TSTryWritten
    /\ HasTypedArm
    /\ ~HasCatchAll
    /\ Len(tryblock.catchblocks) >= 2
    /\ tryblock.hasfinally

\* the body line of a catch block, written at the given depth
BodyLine(cb, depth) == Ind(depth) \o cb.statements[1].expr.target.v \o "();"

\* is catch block i the first typed one?
FirstTyped(i) ==
    \A j \in 1..(i - 1) : tryblock.catchblocks[j].tsclass = ""

\* C3: when the catch arms share one bound variable and include typed arms, the
\* TypeScript rendering has exactly one `catch (var)` clause; in it the typed
\* arms are tested with `var instanceof Class`, the first with `if` and the
\* others with `else if`, in the order the arms were declared, and the
\* catch-all arm's body is the final `else` branch
C3_SingleCatchWithChain ==
    (TSTryWritten /\ HasTypedArm) =>
        LET cbs == tryblock.catchblocks
            var == CatchVar(cbs)
            at(i) == PosOf(TSTryLines, BodyLine(cbs[i], 2))
        IN  /\ Cardinality({ i \in DOMAIN TSTryLines :
                  \E v \in CatchVars \cup {"None"} :
                      TSTryLines[i] = "} catch (" \o v \o ") {" }) = 1
            /\ PosOf(TSTryLines, "} catch (" \o var \o ") {") > 0
            /\ \A i \in DOMAIN cbs :
                  /\ at(i) > 1
                  /\ PosOf(TSTryLines, "} catch (" \o var \o ") {") < at(i)
                  /\ cbs[i].tsclass # "" =>
                        TSTryLines[at(i) - 1] =
                            Ind(1) \o (IF FirstTyped(i) THEN "if" ELSE "} else if")
                                \o " (" \o var \o " instanceof " \o cbs[i].tsclass \o ") {"
                  /\ cbs[i].tsclass = "" =>
                        /\ TSTryLines[at(i) - 1] = Ind(1) \o "} else {"
                        /\ TSTryLines[at(i) + 1] = Ind(1) \o "}"
                        /\ \A j \in DOMAIN cbs : j # i => at(j) < at(i)
            /\ \A i, j \in DOMAIN cbs :
                  (i < j /\ cbs[i].tsclass # "" /\ cbs[j].tsclass # "") => at(i) < at(j)

\* C3 witness: two typed arms and a catch-all, sharing a variable, rendered
C3_Witness ==
    /\ TSTryWritten
    /\ Len(tryblock.catchblocks) = 3
    /\ Cardinality({ i \in 1..3 : tryblock.catchblocks[i].tsclass # "" }) = 2
    /\ HasCatchAll
    /\ tryblock.catchblocks[1].tsclass # tryblock.catchblocks[2].tsclass
    /\ \E i \in 1..3 : tryblock.catchblocks[i].var = "e"


(***************************************************************************)
(* Properties of expression rendering.  What a property expects is written *)
(* out as text here, from the syntax of each target, so that the renderers *)
(* above are checked against it.                                           *)
(***************************************************************************)
\* the position the outermost node gives its operands
Context(e) ==
    CASE e.kind = "isnull" -> "nullcheck"
      [] e.kind = "length" -> "length"
      [] e.kind = "compare" -> "comparison"
      [] e.kind = "not" -> "not"
      [] e.kind = "andor" -> "andor"
      [] e.kind = "await" -> "await"
      [] e.kind = "prop" /\ e.owner.kind # "none" -> "owner"
      [] e.kind = "call" /\ IsExpr(e.target) -> "method"
      [] e.kind = "key" -> "base"
      [] OTHER -> "leaf"

\* the operands of the outermost node
Operands(e) ==
    CASE Context(e) \in {"nullcheck", "length", "base"} -> <<e.target>>
      [] Context(e) = "comparison" -> <<e.arg1, e.arg2>>
      [] Context(e) = "not" -> <<e.arg>>
      [] Context(e) = "andor" -> e.arguments
      [] Context(e) = "await" -> <<e.waitable>>
      [] Context(e) = "owner" -> <<e.owner>>
      [] Context(e) = "method" -> <<e.target.owner>>
      [] OTHER -> <<>>

\* the code of an operand in a target
OperandCode(e, lang) == getExpr(e, lang).code

\* the text of the outermost node in a target, given the texts of its operands
Compose(e, lang, texts) ==
    LET member == IF lang = "php" THEN "->" ELSE "."
    IN  CASE Context(e) = "nullcheck" ->
                texts[1] \o (IF lang = "python" THEN " is None" ELSE " === null")
          [] Context(e) = "length" ->
                (CASE lang = "python" -> "len(" \o texts[1] \o ")"
                   [] lang = "typescript" -> texts[1] \o ".length"
                   [] lang = "php" -> "count(" \o texts[1] \o ")")
          [] Context(e) = "comparison" ->
                texts[1] \o " "
                    \o (IF lang = "python" /\ e.operation = "===" THEN "==" ELSE e.operation)
                    \o " " \o texts[2]
          [] Context(e) = "not" -> (IF lang = "python" THEN "not " ELSE "!") \o texts[1]
          [] Context(e) = "andor" ->
                (CASE lang = "python" ->
                        "bool(" \o Join(texts, IF e.operation = "OR" THEN " or " ELSE " and ")
                            \o ")"
                   [] lang = "typescript" ->
                        "!!(" \o Join(texts, IF e.operation = "OR" THEN " || " ELSE " && ")
                            \o ")"
                   [] lang = "php" ->
                        IF Len(texts) = 1 THEN "(bool)" \o texts[1]
                        ELSE Join(texts, IF e.operation = "OR" THEN " || " ELSE " && "))
          [] Context(e) = "await" -> "await " \o texts[1]
          [] Context(e) = "owner" -> texts[1] \o member \o e.name
          [] Context(e) = "method" ->
                texts[1] \o member \o e.target.name \o "("
                    \o OperandCode(e.pargs[1], lang) \o ")"
          [] Context(e) = "base" ->
                LET access == texts[1] \o "[" \o IndexRepr(lang, e.idx) \o "]"
                    fallback == OperandCode(e.fallback, lang)
                IN  IF e.fallback.kind = "none" THEN access
                    ELSE (CASE lang = "python" ->
                                texts[1] \o ".get(" \o IndexRepr(lang, e.idx) \o ", "
                                    \o fallback \o ")"
                            [] lang = "typescript" ->
                                access \o " === undefined ? " \o fallback \o " : " \o access
                            [] lang = "php" -> access \o " ?? " \o fallback)

\* expr was rendered, and without an exception in this target
Rendered(lang) == rendered # NotRendered /\ rendered[lang].err = ""

\* is the rendering of e in the target a prefix or infix operator expression?
\* (Python renders and/or as a bool(...) call and get-with-fallback as a
\* .get(...) call; PHP has no await)
IsOperatorForm(e, lang) ==
    \/ e.kind \in {"not", "compare", "isnull"}
    \/ e.kind = "andor" /\ lang \in {"typescript", "php"}
    \/ e.kind = "await" /\ lang \in {"python", "typescript"}
    \/ e.kind = "key" /\ e.fallback.kind # "none" /\ lang \in {"typescript", "php"}

\* the line a list-append on expr is to give, from the text of the list
AppendLine(lang, text) ==
    CASE lang = "python" -> text \o ".append(True)"
      [] lang = "typescript" -> text \o ".push(true);"
      [] lang = "php" -> text \o "[] = true;"

\* C4: in every target, a child whose rendering is an operator expression
\* (and/or, not, comparison, null check, await, get-with-fallback) is enclosed
\* in parentheses when it is the owner of a property access, the target of a
\* method call, the base of a key access or the list of a list-append
C4_OperatorChildParenthesized ==
    \A lang \in Langs :
        /\ (/\ Rendered(lang)
            /\ Context(expr) \in {"owner", "method", "base"}
            /\ IsOperatorForm(Operands(expr)[1], lang))
           => rendered[lang].code =
                Compose(expr, lang, <<Parens(OperandCode(Operands(expr)[1], lang))>>)
        /\ (/\ Rendered(lang)
            /\ appendout # NoLines
            /\ IsOperatorForm(expr, lang))
           => appendout[lang] = <<AppendLine(lang, Parens(rendered[lang].code))>>

\* C4, the failing case: a TypeScript and/or of two operands was rendered as
\* the owner of a property access
C4_Witness ==
    /\ Rendered("typescript")
    /\ Context(expr) = "owner"
    /\ expr.owner.kind = "andor"
    /\ Len(expr.owner.arguments) = 2

\* is e a variable, a literal, a property access, a key access without
\* fallback or a call?
IsAtom(e) == e.kind \in {"var", "lit"}
IsTight(e) ==
    \/ IsAtom(e)
    \/ e.kind \in {"prop", "call"}
    \/ e.kind = "key" /\ e.fallback.kind = "none"

AllTight(e) == \A i \in DOMAIN Operands(e) : IsTight(Operands(e)[i])
BareTexts(e, lang) == [i \in DOMAIN Operands(e) |-> OperandCode(Operands(e)[i], lang)]

DotRuleTexts(e, lang) ==
    [i \in DOMAIN Operands(e) |->
        IF IsAtom(Operands(e)[i]) THEN OperandCode(Operands(e)[i], lang)
        ELSE Parens(OperandCode(Operands(e)[i], lang))]

\* every operand in parentheses
ParenTexts(e, lang) ==
    [i \in DOMAIN Operands(e) |-> Parens(OperandCode(Operands(e)[i], lang))]

HasFallback(e) == e.kind = "key" /\ e.fallback.kind # "none"

\* the operand texts when a get-with-fallback that renders as an operator
\* expression is put in parentheses, and every other operand is left bare
FallbackTexts(e, lang) ==
    [i \in DOMAIN Operands(e) |->
        IF HasFallback(Operands(e)[i]) /\ lang \in {"typescript", "php"}
        THEN Parens(OperandCode(Operands(e)[i], lang))
        ELSE OperandCode(Operands(e)[i], lang)]

\* C6: a key access with a fallback that is the operand of a comparison, a not
\* or an await, or the owner of a property access or of a method call, is that
\* operand as a whole in every target: it is in parentheses where it renders
\* as an operator expression (the TypeScript ternary, the PHP ??)
C6_FallbackIsWholeOperand ==
    \A lang \in Langs :
        (/\ Rendered(lang)
         /\ Context(expr) \in {"comparison", "not", "await", "owner", "method"}
         /\ \E i \in DOMAIN Operands(expr) : HasFallback(Operands(expr)[i])
         /\ \A i \in DOMAIN Operands(expr) :
                HasFallback(Operands(expr)[i]) \/ IsAtom(Operands(expr)[i]))
        => rendered[lang].code = Compose(expr, lang, FallbackTexts(expr, lang))

\* C6, the failing case: a key access with a fallback was rendered as an
\* operand of a comparison
C6_Witness ==
    /\ Rendered("typescript")
    /\ Context(expr) = "comparison"
    /\ HasFallback(expr.arg1)

\* the negated operators, per target
NegatedOperator(operation, lang) ==
    CASE operation = "===" -> IF lang = "python" THEN "!=" ELSE "!=="
      [] operation = "<" -> ">="
      [] operation = ">" -> "<="
PlainOperator(operation, lang) ==
    IF operation = "===" /\ lang = "python" THEN "==" ELSE operation

\* an operand's code, bare or in parentheses
EitherText(e, lang) == { OperandCode(e, lang), Parens(OperandCode(e, lang)) }

PropNames == <<"species", "count", "label", "age", "owner">>
PropTypes == <<CrossStr, CrossNum, CrossStr, CrossNum, CrossStr>>

\* the defaults a property may be declared with: none, a literal, an expression
PropDefault(kind, type) ==
    CASE kind = "none" -> NoExpr
      [] kind = "literal" ->
            IF type = CrossStr THEN PanLiteral(StrVal("x")) ELSE PanLiteral(IntVal(0))
      [] kind = "expr" -> PanCall(StrVal("make"), <<>>)

ClassUntouched ==
    UNCHANGED <<expr, rendered, appendout, tryblock, tryout, func, funcout, pantype,
                iface, ifaceout, script, scriptout, dest, lit,
                littext>>

\* a builder call changed the class: what was rendered is of the old tree
Changed(newcls) ==
    /\ cls' = newcls
    /\ clsout' = NotWritten
    /\ repeated' = FALSE
    /\ raised' = ""
    /\ ClassUntouched

\* a builder call raised: the class is as the call left it
Rejected(exc, newcls) ==
    /\ cls' = newcls
    /\ raised' = exc
    /\ UNCHANGED <<clsout, repeated, declared>>
    /\ ClassUntouched

\* cls.addProperty(PropNames[k], PropTypes[k], initarg=initarg, default=...)
AddPropertyCall(k, initarg, kind) ==
    LET newcls == addProperty(cls, PropNames[k], PropTypes[k], initarg,
                              PropDefault(kind, PropTypes[k]))
        exc == addPropertyRaises(cls, PropNames[k])
    IN  IF exc # "" THEN Rejected(exc, newcls)
        ELSE /\ Changed(newcls)
             /\ declared' = Append(declared, [name |-> PropNames[k], initarg |-> initarg,
                                             kind |-> kind])

\* cls.addProperty(name, type, initarg=initarg, default=default), for the
\* next property name
AddProperty ==
    \E initarg \in BOOLEAN, kind \in {"none", "literal", "expr"} :
        /\ Len(cls.properties) < MaxProps
        /\ Len(cls.properties) < Len(PropNames)
        /\ ~(initarg /\ kind = "expr")
        /\ AddPropertyCall(Len(cls.properties) + 1, initarg, kind)

\* cls.addProperty(name, type, initarg=initarg, default=default), for a name
\* declared before
AddPropertyAgain ==
    \E k \in 1..Len(cls.properties), initarg \in BOOLEAN,
       kind \in {"none", "literal", "expr"} :
        AddPropertyCall(k, initarg, kind)

\* cls.addPythonBaseClass("Animal", send_args_kwargs=send), for a class that
\* has no Python base yet
AddPythonBaseClass ==
    /\ cls.pybases = <<>>
    /\ \E send \in BOOLEAN :
          Changed([cls EXCEPT !.pybases_args_kwargs = send \/ @,
                              !.pybases = Append(@, "Animal")])
    /\ UNCHANGED declared

\* cls.setTypeScriptParentClass("Animal"); a second call raises InvalidLogic
SetTypeScriptParentClass ==
    /\ cls.tsbase = ""
    /\ Changed([cls EXCEPT !.tsbase = "Animal"])
    /\ UNCHANGED declared

\* cls.setPHPParentClass("Animal"); a second call raises InvalidLogic
SetPHPParentClass ==
    /\ cls.phpbase = ""
    /\ Changed([cls EXCEPT !.phpbase = "Animal"])
    /\ UNCHANGED declared

\* script.get_source_code(lang=lang): the text, and the class as the calls of
\* _getInitSpec(lang) left it
GetSourceCode ==
    \E lang \in Langs :
        /\ clsout' = [clsout EXCEPT ![lang] = get_source_code(cls, lang)]
        /\ cls' = [cls EXCEPT !.initdefaults = InitDefaultsAfter(cls, lang)]
        /\ repeated' = (repeated \/ clsout[lang] # NotWritten[lang])
        /\ UNCHANGED <<declared, raised>>
        /\ ClassUntouched

InitClass ==
    /\ expr = PanVar("z")
    /\ rendered = NotRendered
    /\ appendout = NoLines
    /\ tryblock = NoTry
    /\ tryout = NotWritten
    /\ cls = ClassSpec("Pet")
    /\ clsout = NotWritten
    /\ declared = <<>>
    /\ repeated = FALSE
    /\ raised = ""
    /\ func = NoFunc
    /\ funcout = NotWritten
    /\ pantype = NotAsked
    /\ iface = NoInterface
    /\ ifaceout = NotWritten
    /\ script = Script
    /\ scriptout = NotWritten
    /\ dest = NoLines["python"]
    /\ lit = <<>>
    /\ littext = NotTyped

NextClass ==
    \/ AddProperty
    \/ AddPythonBaseClass
    \/ SetTypeScriptParentClass
    \/ SetPHPParentClass
    \/ GetSourceCode

SpecClass == InitClass /\ [][NextClass]_vars

\* a class on which addProperty is also called for names it already has
NextDup ==
    \/ AddProperty
    \/ AddPropertyAgain
    \/ SetTypeScriptParentClass
    \/ GetSourceCode

SpecDup == InitClass /\ [][NextDup]_vars


(***************************************************************************)
(* Properties of the synthesized constructor and of rendering a script.    *)
(* The lines a property expects are written out here per target.           *)
(***************************************************************************)
\* the script was rendered for the target, without an exception
ClassWritten(lang) == clsout[lang] # NotWritten[lang] /\ clsout[lang].err = ""
ClassLines(lang) == clsout[lang].lines

\* the properties declared with initarg=True, and those declared with a
\* default and without initarg, in the order they were declared
RECURSIVE DeclaredInitArgs(_)
DeclaredInitArgs(decls) ==
    IF Len(decls) = 0 THEN <<>>
    ELSE (IF Head(decls).initarg THEN <<Head(decls)>> ELSE <<>>)
            \o DeclaredInitArgs(Tail(decls))
RECURSIVE DeclaredDefaults(_)
DeclaredDefaults(decls) ==
    IF Len(decls) = 0 THEN <<>>
    ELSE (IF ~Head(decls).initarg /\ Head(decls).kind # "none" THEN <<Head(decls)>> ELSE <<>>)
            \o DeclaredDefaults(Tail(decls))

\* the type names and the default texts of the declared properties
TypeText(lang, name) ==
    LET isstr == name \in {"species", "label", "owner"}
    IN  CASE lang = "python" -> IF isstr THEN "str" ELSE "int"
          [] lang = "typescript" -> IF isstr THEN "string" ELSE "number"
          [] lang = "php" -> IF isstr THEN "string" ELSE "int"
DefaultText(decl) ==
    CASE decl.kind = "literal" ->
            IF decl.name \in {"species", "label", "owner"} THEN "'x'" ELSE "0"
      [] decl.kind = "expr" -> "make()"
      [] decl.kind = "none" -> ""

\* the lines of a constructor, at the depth of a class member
CtorHeader(lang) ==
    Ind(1) \o (CASE lang = "python" -> "def __init__("
                 [] lang = "typescript" -> "public constructor("
                 [] lang = "php" -> "public function __construct(")
CtorClose(lang) == Ind(1) \o (IF lang = "python" THEN ") -> None:" ELSE ") {")
ParamLine(lang, decl, last) ==
    Ind(2) \o (CASE lang = "python" -> decl.name \o ": " \o TypeText(lang, decl.name)
                 [] lang = "typescript" -> decl.name \o ": " \o TypeText(lang, decl.name)
                 [] lang = "php" -> TypeText(lang, decl.name) \o " $" \o decl.name)
           \o (IF decl.kind # "none" THEN " = " \o DefaultText(decl) ELSE "")
           \o (IF lang = "php" /\ last THEN "" ELSE ",")
AssignLine(lang, name, value) ==
    Ind(2) \o (CASE lang = "python" -> "self." \o name \o " = " \o value
                 [] lang = "typescript" -> "this." \o name \o " = " \o value \o ";"
                 [] lang = "php" -> "$this->" \o name \o " = " \o value \o ";")
ParamName(lang, name) == IF lang = "php" THEN "$" \o name ELSE name
ParentCallLine(lang) ==
    Ind(2) \o (CASE lang = "python" ->
                      IF cls.pybases_args_kwargs THEN "super().__init__(*args, **kwargs)"
                      ELSE "super().__init__()"
                 [] lang = "typescript" -> "super();"
                 [] lang = "php" -> "parent::__construct();")

\* does the constructor of the target assign the default of a declaration?
\* TypeScript and PHP initialize literal defaults where the property is declared
AssignsDefault(lang, decl) == lang = "python" \/ decl.kind = "expr"

\* is a constructor synthesized for the target?
HasConstructor(lang) ==
    \/ Len(DeclaredInitArgs(declared)) > 0
    \/ \E i \in DOMAIN declared :
          ~declared[i].initarg /\ declared[i].kind # "none" /\ AssignsDefault(lang, declared[i])

\* has the class a parent in the target?
HasParent(lang) ==
    CASE lang = "python" -> Len(cls.pybases) > 0
      [] lang = "typescript" -> cls.tsbase # ""
      [] lang = "php" -> cls.phpbase # ""

\* C8: in every target, the parameters of the synthesized constructor are the
\* initarg properties, in the order they were declared; the body assigns each
\* parameter to its property in that order, starting with its first statement;
\* and a default of a property that is no initarg is assigned only after all
\* of these assignments
C8_InitArgsThenDefaults ==
    \A lang \in Langs :
        (ClassWritten(lang) /\ HasConstructor(lang)) =>
            LET args == DeclaredInitArgs(declared)
                defaults == DeclaredDefaults(declared)
                n == Len(args)
                header == PosOf(ClassLines(lang), CtorHeader(lang))
                first == header + (IF lang = "python" THEN 1 ELSE 0)
                close == PosOf(ClassLines(lang), CtorClose(lang))
            IN  /\ header > 0
                /\ close = first + n + 1
                      + (IF lang = "python" /\ cls.pybases_args_kwargs THEN 2 ELSE 0)
                /\ \A k \in 1..n :
                      /\ ClassLines(lang)[first + k] = ParamLine(lang, args[k], k = n)
                      /\ ClassLines(lang)[close + k] =
                            AssignLine(lang, args[k].name, ParamName(lang, args[k].name))
                /\ \A d \in DOMAIN defaults :
                      LET at == PosOf(ClassLines(lang),
                                      AssignLine(lang, defaults[d].name,
                                                 DefaultText(defaults[d])))
                      IN  /\ AssignsDefault(lang, defaults[d]) => at > 0
                          /\ at > 0 => at > close + n
                          /\ \A e \in DOMAIN defaults :
                                (d < e /\ AssignsDefault(lang, defaults[d])
                                       /\ AssignsDefault(lang, defaults[e]))
                                => at < PosOf(ClassLines(lang),
                                              AssignLine(lang, defaults[e].name,
                                                         DefaultText(defaults[e])))

\* C8 witness: a property with a default declared before an initarg property,
\* rendered in every target
C8_Witness ==
    /\ \A lang \in Langs : ClassWritten(lang)
    /\ Len(declared) = 2
    /\ ~declared[1].initarg /\ declared[1].kind = "expr"
    /\ declared[2].initarg

\* C9: when the class has a parent in the target and a constructor is
\* synthesized, the call of the parent constructor comes before every
\* assignment of an initarg or of a default in the constructor body
C9_ParentCallFirst ==
    \A lang \in Langs :
        (ClassWritten(lang) /\ HasConstructor(lang) /\ HasParent(lang)) =>
            LET call == PosOf(ClassLines(lang), ParentCallLine(lang))
            IN  /\ call > 0
                /\ \A i \in DOMAIN declared :
                      LET value == IF declared[i].initarg
                                   THEN ParamName(lang, declared[i].name)
                                   ELSE DefaultText(declared[i])
                          at == PosOf(ClassLines(lang),
                                      AssignLine(lang, declared[i].name, value))
                      IN  at > 0 => call < at

\* C9, the failing case: one initarg property and a TypeScript parent, rendered
C9_Witness ==
    /\ ClassWritten("typescript")
    /\ Len(declared) = 1
    /\ declared[1].initarg
    /\ cls.tsbase # ""

\* the text of a class Pet with the parent Animal whose only property is the
\* initarg species, as each target is to render it
PetLines(lang) ==
    CASE lang = "python" ->
            << "class Pet(Animal):",
               "    species: str",
               "",
               "",
               "    def __init__(",
               "        self,",
               "        species: str,",
               "    ) -> None:",
               "        self.species = species",
               "        super().__init__()",
               "" >>
      [] lang = "typescript" ->
            << "class Pet extends Animal {",
               "    public species: string;",
               "",
               "    public constructor(",
               "        species: string,",
               "    ) {",
               "        this.species = species;",
               "        super();",
               "    }",
               "}" >>
      [] lang = "php" ->
            << "<?php",
               "",
               "class Pet extends Animal {",
               "    /** @var string */",
               "    public $species;",
               "",
               "    public function __construct(",
               "        string $species",
               "    ) {",
               "        $this->species = $species;",
               "        parent::__construct();",
               "    }",
               "}" >>

\* a class with one initarg property, a parent in every target, nothing else
OnlyInitArgAndParents ==
    /\ declared = << [name |-> "species", initarg |-> TRUE, kind |-> "none"] >>
    /\ cls.pybases = <<"Animal">>
    /\ ~cls.pybases_args_kwargs
    /\ cls.tsbase = "Animal"
    /\ cls.phpbase = "Animal"

\* C10: a class with exactly one initarg property and a parent class in every
\* target renders, in every target, as the property declaration, then a
\* constructor with that property as its only parameter whose body is the
\* assignment of the parameter to the property followed by the call of the
\* parent constructor, and nothing else
C10_PetExample ==
    \A lang \in Langs :
        (ClassWritten(lang) /\ OnlyInitArgAndParents) => ClassLines(lang) = PetLines(lang)

\* C10 witness: the class was rendered in all three targets
C10_Witness ==
    /\ OnlyInitArgAndParents
    /\ \A lang \in Langs : ClassWritten(lang)

ArgNames == <<"a", "b", "c", "d">>
ArgTypes == { CrossStr, CrossOptional(CrossNum), CrossUnion(<<CrossStr, CrossNum>>) }
ArgDefaults == { NoExpr, PanLiteral(IntVal(55)), PanLiteral(NoneVal), PanOmit }

FuncUntouched ==
    UNCHANGED <<expr, rendered, appendout, tryblock, tryout, cls, clsout, repeated,
                pantype, iface, ifaceout, script, scriptout, dest, lit,
                littext>>

\* how many arguments func has
NumArgs == Len(func.pargs) + Len(func.kwargs)

\* a builder call on func returned or raised
FuncCalled(newfunc, exc) ==
    /\ func' = newfunc
    /\ raised' = exc
    /\ funcout' = IF newfunc = func THEN funcout ELSE NotWritten
    /\ UNCHANGED declared
    /\ FuncUntouched

\* func.addPositionalArg(name, type, default=default, allowomit=allowomit)
AddPositionalArgCall(type, default, allowomit) ==
    FuncCalled(addPositionalArg(func, ArgNames[NumArgs + 1], type, default, allowomit),
               addArgRaises(func, default, allowomit))

\* func.addKWArg(name, type, default=default, nullable=nullable,
\* allowomit=allowomit)
AddKWArgCall(type, default, nullable, allowomit) ==
    FuncCalled(addKWArg(func, ArgNames[NumArgs + 1], type, default, nullable, allowomit),
               addArgRaises(func, default, allowomit))

AddOmittablePositionalArg ==
    /\ NumArgs < MaxOmitArgs
    /\ \E type \in ArgTypes, default \in ArgDefaults, allowomit \in BOOLEAN :
          AddPositionalArgCall(type, default, allowomit)

AddOmittableKWArg ==
    /\ NumArgs < MaxOmitArgs
    /\ \E type \in ArgTypes, default \in ArgDefaults, nullable \in BOOLEAN,
          allowomit \in BOOLEAN :
          AddKWArgCall(type, default, nullable, allowomit)

\* func.addOverload({}, returntype)
AddPlainOverload ==
    /\ Len(func.overloads) < MaxOverloads
    /\ \E returntype \in {NoType, CrossStr} :
          FuncCalled(addOverload(func, <<>>, returntype), "")

InitArgs ==
    /\ expr = PanVar("z")
    /\ rendered = NotRendered
    /\ appendout = NoLines
    /\ tryblock = NoTry
    /\ tryout = NotWritten
    /\ cls = NoClass
    /\ clsout = NotWritten
    /\ declared = <<>>
    /\ repeated = FALSE
    /\ raised = ""
    /\ func = FunctionSpec("fun1", NoType, FALSE, FALSE)
    /\ funcout = NotWritten
    /\ pantype = NotAsked
    /\ iface = NoInterface
    /\ ifaceout = NotWritten
    /\ script = Script
    /\ scriptout = NotWritten
    /\ dest = NoLines["python"]
    /\ lit = <<>>
    /\ littext = NotTyped

NextArgs ==
    \/ AddOmittablePositionalArg
    \/ AddOmittableKWArg
    \/ AddPlainOverload

SpecArgs == InitArgs /\ [][NextArgs]_vars

\* the variants of a type: those of a union, the inner type and null of an
\* optional type, the type itself otherwise
VariantSet(t) ==
    CASE t.kind = "CrossUnion" -> { t.inner[i] : i \in DOMAIN t.inner }
      [] t.kind = "CrossOptional" -> { t.inner, CrossNull }
      [] OTHER -> { t }

\* what the claim says of the argument a call added
OmitRule(arg, type, default, nullable, allowomit) ==
    /\ allowomit =>
          /\ arg.crosstype.kind = "CrossUnion"
          /\ VariantSet(arg.crosstype) =
                VariantSet(type) \cup (IF nullable THEN {CrossNull} ELSE {}) \cup {CrossOmit}
          /\ arg.default = (IF default = NoExpr THEN PanOmit ELSE default)
    /\ ~allowomit => arg.default # PanOmit

\* C13: an argument added with allowomit has the union of its declared type
\* (made nullable first when nullable is set) and the Omit type as its type,
\* and the Omit value as its default exactly when no default was given: a
\* default that was given, None included, is kept; an argument added without
\* allowomit never has the Omit value as its default
C13_OmittableArgument ==
    [][ \A type \in ArgTypes, default \in ArgDefaults, nullable \in BOOLEAN,
           allowomit \in BOOLEAN :
           /\ (AddKWArgCall(type, default, nullable, allowomit) /\ Len(func.overloads) = 0) =>
                 IF Len(func'.kwargs) > Len(func.kwargs)
                 THEN OmitRule(func'.kwargs[Len(func'.kwargs)], type, default, nullable,
                               allowomit)
                 ELSE ~allowomit /\ default = PanOmit /\ func' = func
           /\ (AddPositionalArgCall(type, default, allowomit) /\ Len(func.overloads) = 0) =>
                 IF Len(func'.pargs) > Len(func.pargs)
                 THEN OmitRule(func'.pargs[Len(func'.pargs)], type, default, FALSE, allowomit)
                 ELSE ~allowomit /\ default = PanOmit /\ func' = func
      ]_vars

\* C13 witness: a nullable argument added with allowomit and without a default
C13_Witness ==
    /\ Len(func.kwargs) = 1
    /\ func.kwargs[1].crosstype = CrossUnion(<<CrossStr, CrossNull, CrossOmit>>)
    /\ func.kwargs[1].default = PanOmit

\* C17: after addOverload, every addPositionalArg and addKWArg is rejected
\* with InvalidLogic and leaves the arguments and the overloads of the spec
\* as they were
C17_NoArgAfterOverload ==
    [][ \A type \in ArgTypes, default \in ArgDefaults, nullable \in BOOLEAN,
           allowomit \in BOOLEAN :
           (/\ Len(func.overloads) > 0
            /\ \/ AddKWArgCall(type, default, nullable, allowomit)
               \/ AddPositionalArgCall(type, default, allowomit)) =>
                 /\ raised' = "InvalidLogic"
                 /\ func'.pargs = func.pargs
                 /\ func'.kwargs = func.kwargs
                 /\ func'.overloads = func.overloads
      ]_vars

\* C17, the failing case: an argument was added to a spec that has an overload
C17_Witness ==
    /\ Len(func.overloads) > 0
    /\ raised = "AssertionError"

(***************************************************************************)
(* A function spec with overloads, rendered.                               *)
(***************************************************************************)
\* the type and default a plain argument is declared with
PlainArgs ==
    { [type |-> CrossStr, default |-> NoExpr],
      [type |-> CrossNum, default |-> PanLiteral(IntVal(55))] }

\* the modifications and return type an overload is declared with: a name
\* maps to its overriding type, or to NoType for None (the argument is removed)
OverloadChoices ==
    << [modifications |-> [n \in {} |-> NoType], returntype |-> NoType],
       [modifications |-> [n \in {"a"} |-> CrossAny], returntype |-> CrossStr],
       [modifications |-> [n \in {"a"} |-> NoType], returntype |-> CrossNum],
       [modifications |-> [n \in {"b"} |-> CrossOptional(CrossStr)], returntype |-> CrossStr],
       [modifications |-> [n \in {"a", "b"} |-> IF n = "a" THEN CrossNum ELSE NoType],
        returntype |-> CrossAny] >>

\* func.addPositionalArg(name, type, default=default)
AddPlainPositionalArg ==
    /\ NumArgs < MaxArgs
    /\ \E arg \in PlainArgs : AddPositionalArgCall(arg.type, arg.default, FALSE)

\* func.addKWArg(name, type, default=default)
AddPlainKWArg ==
    /\ NumArgs < MaxArgs
    /\ \E arg \in PlainArgs : AddKWArgCall(arg.type, arg.default, FALSE, FALSE)

\* func.addOverload(modifications, returntype)
AddOverload ==
    /\ Len(func.overloads) < MaxOverloads
    /\ \E k \in DOMAIN OverloadChoices :
          /\ func' = addOverload(func, OverloadChoices[k].modifications,
                                 OverloadChoices[k].returntype)
          /\ declared' = Append(declared, OverloadChoices[k])
    /\ raised' = ""
    /\ funcout' = NotWritten
    /\ FuncUntouched

\* func.writepy(w), .writets(w) and .writephp(w) on fresh writers
RenderFunc ==
    /\ funcout = NotWritten
    /\ funcout' = [l \in Langs |-> FunctionSpecWrite(l, func, 0)]
    /\ UNCHANGED <<func, raised, declared>>
    /\ FuncUntouched

InitOverload ==
    /\ expr = PanVar("z")
    /\ rendered = NotRendered
    /\ appendout = NoLines
    /\ tryblock = NoTry
    /\ tryout = NotWritten
    /\ cls = NoClass
    /\ clsout = NotWritten
    /\ declared = <<>>
    /\ repeated = FALSE
    /\ raised = ""
    /\ func = FunctionSpec("overfun", NoType, FALSE, FALSE)
    /\ funcout = NotWritten
    /\ pantype = NotAsked
    /\ iface = NoInterface
    /\ ifaceout = NotWritten
    /\ script = Script
    /\ scriptout = NotWritten
    /\ dest = NoLines["python"]
    /\ lit = <<>>
    /\ littext = NotTyped

NextOverload ==
    \/ AddPlainPositionalArg
    \/ AddPlainKWArg
    \/ AddOverload
    \/ RenderFunc

SpecOverload == InitOverload /\ [][NextOverload]_vars

\* the spec was rendered
FuncRendered == funcout # NotWritten

\* the header lines an overload has for the arguments of the base: those the
\* modifications do not remove, in the base's order, with the overriding type
\* where the modifications name the argument, and no default
OverloadArgLines(args, modifications) ==
    LET Kept(arg) == ~(arg.name \in DOMAIN modifications
                        /\ modifications[arg.name] = NoType)
        kept == SelectSeq(args, Kept)
    IN  [i \in DOMAIN kept |->
            "    " \o kept[i].name \o ": "
                \o getQuotedPyType(IF kept[i].name \in DOMAIN modifications
                                   THEN modifications[kept[i].name]
                                   ELSE kept[i].crosstype)
                \o ","]

\* the Python text of one overload of func
OverloadText(decl) ==
    LET kwlines == OverloadArgLines(func.kwargs, decl.modifications)
    IN  <<"", "@typing.overload", "def " \o func.name \o "(">>
            \o OverloadArgLines(func.pargs, decl.modifications)
            \o (IF Len(kwlines) > 0 THEN <<"    *,">> ELSE <<>>)
            \o kwlines
            \o <<IF decl.returntype = NoType THEN ") -> None:"
                 ELSE ") -> " \o getQuotedPyType(decl.returntype) \o ":",
                 "    ...">>

\* the Python texts of the overloads declared from the k-th on, one after the
\* other
RECURSIVE OverloadTexts(_)
OverloadTexts(k) ==
    IF k > Len(declared) THEN <<>> ELSE OverloadText(declared[k]) \o OverloadTexts(k + 1)

\* Python renders each overload before the base definition, in the order the
\* overloads were declared
PythonRendersOverloads ==
    /\ funcout["python"].err = ""
    /\ funcout["python"].lines =
          OverloadTexts(1)
              \o FunctionSpecWrite("python", [func EXCEPT !.overloads = <<>>], 0).lines

\* rendering for the target raised the exception and wrote nothing
Refused(lang, exc) == funcout[lang].err = exc /\ funcout[lang].lines = <<>>

BodyStatements ==
    { ReturnStatement(PanLiteral(NoneVal)),
      PanExprStatement(PanCall(StrVal("do_something"), <<>>)),
      HardCodedStatement(Ellipsis, StrVal("run();"), StrVal("run();")),
      PanExprStatement(PanTSOnly("run()")) }

\* func.also(stmt) and func.alsoReturn(expr)
AlsoStatement ==
    /\ Len(func.statements) < MaxStmts
    /\ \E stmt \in BodyStatements : FuncCalled(also(func, stmt), "")

InitAbstract ==
    /\ expr = PanVar("z")
    /\ rendered = NotRendered
    /\ appendout = NoLines
    /\ tryblock = NoTry
    /\ tryout = NotWritten
    /\ cls = NoClass
    /\ clsout = NotWritten
    /\ declared = <<>>
    /\ repeated = FALSE
    /\ raised = ""
    /\ func \in { FunctionSpec("fun1", CrossNull, isabstract, ismethod) :
                    isabstract \in BOOLEAN, ismethod \in BOOLEAN }
    /\ funcout = NotWritten
    /\ pantype = NotAsked
    /\ iface = NoInterface
    /\ ifaceout = NotWritten
    /\ script = Script
    /\ scriptout = NotWritten
    /\ dest = NoLines["python"]
    /\ lit = <<>>
    /\ littext = NotTyped

NextAbstract ==
    \/ AddPlainPositionalArg
    \/ AlsoStatement
    \/ RenderFunc

SpecAbstract == InitAbstract /\ [][NextAbstract]_vars

\* C15: rendering an abstract function spec that holds a statement raises
\* InvalidLogic in each target, whatever the statement; adding the statement
\* raises nothing; an abstract spec without statements renders in each target
C15_AbstractBodyRejected ==
    /\ raised = ""
    /\ (FuncRendered /\ func.isabstract) =>
          \A lang \in Langs :
              funcout[lang].err = (IF Len(func.statements) > 0 THEN "InvalidLogic" ELSE "")

\* C15, the failing case: an abstract spec with a statement, rendered, and
\* Python raised another exception than InvalidLogic
C15_Witness ==
    /\ FuncRendered
    /\ func.isabstract
    /\ Len(func.statements) > 0
    /\ funcout["python"].err \notin {"", "InvalidLogic"}
    /\ funcout["typescript"].err = "InvalidLogic"
    /\ funcout["php"].err = "InvalidLogic"

(***************************************************************************)
(* A call expression and its arguments.                                    *)
(***************************************************************************)
\* the values a call is given as arguments, and the names of its keyword
\* arguments
CallArgs == { PanVar("x"), PanLiteral(IntVal(1)), PanOmit }
KWNames == { "k1", "k2" }

CallUntouched ==
    UNCHANGED <<appendout, tryblock, tryout, cls, clsout, declared, repeated, func,
                funcout, pantype, iface, ifaceout, script, scriptout, dest, lit,
                littext>>

\* a method of the call in expr returned or raised
CallChanged(newcall, exc) ==
    /\ expr' = newcall
    /\ raised' = exc
    /\ rendered' = IF newcall = expr THEN rendered ELSE NotRendered
    /\ CallUntouched

\* expr.addPositionalArg(value)
CallAddPositionalArg ==
    /\ Len(expr.pargs) + Len(expr.kwargs) < MaxArgs
    /\ \E value \in CallArgs : CallChanged(PanCallAddPositionalArg(expr, value), "")

\* expr.addKWArg(argname, value)
CallAddKWArg ==
    /\ Len(expr.pargs) + Len(expr.kwargs) < MaxArgs
    /\ \E argname \in KWNames, value \in CallArgs :
          CallChanged(PanCallAddKWArg(expr, argname, value),
                      PanCallAddKWArgRaises(expr, argname))

InitCall ==
    /\ expr \in { PanCall(StrVal("f"), <<>>), PanCall(PanProp("m", PanVar("z")), <<>>) }
    /\ rendered = NotRendered
    /\ appendout = NoLines
    /\ tryblock = NoTry
    /\ tryout = NotWritten
    /\ cls = NoClass
    /\ clsout = NotWritten
    /\ declared = <<>>
    /\ repeated = FALSE
    /\ raised = ""
    /\ func = NoFunc
    /\ funcout = NotWritten
    /\ pantype = NotAsked
    /\ iface = NoInterface
    /\ ifaceout = NotWritten
    /\ script = Script
    /\ scriptout = NotWritten
    /\ dest = NoLines["python"]
    /\ lit = <<>>
    /\ littext = NotTyped

NextCall ==
    \/ CallAddPositionalArg
    \/ CallAddKWArg
    \/ RenderExpr

SpecCall == InitCall /\ [][NextCall]_vars

\* the Python text of the arguments of the call in expr: the positional
\* arguments, then name=value for each keyword argument in the order added
PyArgTexts ==
    [i \in DOMAIN expr.pargs |-> getExpr(expr.pargs[i], "python").code]
        \o [i \in DOMAIN expr.kwargs |->
               expr.kwargs[i].name \o "=" \o getExpr(expr.kwargs[i].value, "python").code]

\* C18: rendering a call that holds a keyword argument raises
\* NotSupportedError for TypeScript and for PHP and gives no code; for Python
\* the keyword arguments follow the positional ones as name=value, in the
\* order they were added
C18_KeywordArgumentsPythonOnly ==
    (rendered # NotRendered /\ Len(expr.kwargs) > 0) =>
        /\ \A lang \in {"typescript", "php"} :
              rendered[lang].err = "NotSupportedError" /\ rendered[lang].code = ""
        /\ rendered["python"].err = ""
        /\ rendered["python"].code =
              (IF IsExpr(expr.target) THEN getExpr(expr.target, "python").code
               ELSE expr.target.v) \o "(" \o Join(PyArgTexts, ", ") \o ")"

\* C18, the failing case: a call with a positional and a keyword argument was
\* rendered; TypeScript and PHP failed an assertion
C18_Witness ==
    /\ rendered # NotRendered
    /\ Len(expr.kwargs) > 0
    /\ Len(expr.pargs) > 0
    /\ rendered["python"].err = ""
    /\ rendered["typescript"].err = "AssertionError"
    /\ rendered["php"].err = "AssertionError"

(***************************************************************************)
(* Asking an expression for its type.                                      *)
(***************************************************************************)
\* the expressions asked for their type, helpers applied to them or not
TypeLeaves ==
    { PanVar("z"), PanVarOfType("z", CrossStr),
      HardCodedExpr(StrVal("$z"), StrVal("z"), StrVal("z"), NoType),
      HardCodedExpr(StrVal("$z"), StrVal("z"), StrVal("z"), CrossNum),
      PanCall(StrVal("f"), <<>>), PanLiteral(IntVal(5)), PanLiteral(NoneVal), PanOmit,
      PanPyOnly("z") }

\* expr.getPanType()
GetPanType ==
    /\ pantype = NotAsked
    /\ pantype' = getPanType(expr)
    /\ UNCHANGED <<expr, rendered, appendout>>
    /\ ExprUntouched

InitType ==
    /\ expr \in TypeLeaves
    /\ rendered = NotRendered
    /\ appendout = NoLines
    /\ tryblock = NoTry
    /\ tryout = NotWritten
    /\ cls = NoClass
    /\ clsout = NotWritten
    /\ declared = <<>>
    /\ repeated = FALSE
    /\ raised = ""
    /\ func = NoFunc
    /\ funcout = NotWritten
    /\ pantype = NotAsked
    /\ iface = NoInterface
    /\ ifaceout = NotWritten
    /\ script = Script
    /\ scriptout = NotWritten
    /\ dest = NoLines["python"]
    /\ lit = <<>>
    /\ littext = NotTyped

NextType ==
    \/ not_
    \/ lengthexpr
    \/ await_
    \/ callmethod
    \/ GetPanType

SpecType == InitType /\ [][NextType]_vars

\* expr is a variable or a hard-coded expression constructed without a type,
\* or a call
LacksType ==
    \/ expr.kind \in {"var", "hardcodedexpr"} /\ expr.type = NoType
    \/ expr.kind = "call"

\* C20: asking a variable constructed without a type, a hard-coded expression
\* constructed without a type, or a call expression for its type raises
\* TypeMissing
C20_TypeMissing ==
    (pantype # NotAsked /\ LacksType) => pantype.err = "TypeMissing"

\* C20, the failing case: a call expression was asked for its type and raised
\* NotImplementedError
C20_Witness ==
    /\ pantype.err = "NotImplementedError"
    /\ expr.kind = "call"

(***************************************************************************)
(* An interface specification, rendered.                                   *)
(***************************************************************************)
\* the names and types the properties of an interface are declared with
InterfacePropNames == { "closed", "title" }
InterfacePropTypes == { CrossBool, CrossStr, CrossNum, CrossOptional(CrossStr) }

InterfaceUntouched ==
    UNCHANGED <<expr, rendered, appendout, tryblock, tryout, cls, clsout, declared,
                repeated, raised, func, funcout, pantype, script, scriptout, dest, lit,
                littext>>

\* iface.addProperty(name, type)
InterfaceAddProperty ==
    /\ Len(iface.properties) < MaxProps
    /\ \E name \in InterfacePropNames, type \in InterfacePropTypes :
          iface' = InterfaceSpecAddProperty(iface, name, type)
    /\ ifaceout' = NotWritten
    /\ InterfaceUntouched

\* iface.writepy(w), .writets(w) and .writephp(w) on fresh writers
RenderInterface ==
    /\ ifaceout = NotWritten
    /\ ifaceout' = [l \in Langs |-> InterfaceSpecWrite(l, iface, 0)]
    /\ UNCHANGED iface
    /\ InterfaceUntouched

InitInterface ==
    /\ expr = PanVar("z")
    /\ rendered = NotRendered
    /\ appendout = NoLines
    /\ tryblock = NoTry
    /\ tryout = NotWritten
    /\ cls = NoClass
    /\ clsout = NotWritten
    /\ declared = <<>>
    /\ repeated = FALSE
    /\ raised = ""
    /\ func = NoFunc
    /\ funcout = NotWritten
    /\ pantype = NotAsked
    /\ iface \in { InterfaceSpec("Window", tsexport) : tsexport \in BOOLEAN }
    /\ ifaceout = NotWritten
    /\ script = Script
    /\ scriptout = NotWritten
    /\ dest = NoLines["python"]
    /\ lit = <<>>
    /\ littext = NotTyped

NextInterface ==
    \/ InterfaceAddProperty
    \/ RenderInterface

SpecInterface == InitInterface /\ [][NextInterface]_vars

\* the k-th line of the TypeScript interface: the header, a line per property
\* in declaration order, the closing brace
InterfaceLineTS(k) ==
    IF k = 1 THEN (IF iface.tsexport THEN "export interface " ELSE "interface ")
                      \o iface.name \o " {"
    ELSE IF k = Len(iface.properties) + 2 THEN "}"
    ELSE "    " \o iface.properties[k - 1].name \o ": "
             \o getTSType(iface.properties[k - 1].type) \o ";"

\* TypeScript writes the interface with its properties
InterfaceRendersTS ==
    /\ ifaceout["typescript"].err = ""
    /\ ifaceout["typescript"].lines =
          [k \in 1..(Len(iface.properties) + 2) |-> InterfaceLineTS(k)]

Occurrences(lines, line) == Cardinality({ i \in DOMAIN lines : lines[i] = line })

\* every line that calls a parent constructor, at the depth of a constructor body
ParentCallLines(lang) ==
    CASE lang = "python" ->
            { Ind(2) \o "super().__init__()", Ind(2) \o "super().__init__(*args, **kwargs)" }
      [] lang = "typescript" -> { Ind(2) \o "super();" }
      [] lang = "php" -> { Ind(2) \o "parent::__construct();" }

\* C11: a class none of whose properties is an initarg or has a default is
\* rendered without a constructor in every target, and without a call of the
\* parent constructor, also when it has a parent class; a class with at
\* least one initarg property is rendered with a constructor in every target
C11_ConstructorOnlyWhenNeeded ==
    \A lang \in Langs :
        ClassWritten(lang) =>
            /\ (\A i \in DOMAIN declared : ~declared[i].initarg /\ declared[i].kind = "none")
               => /\ Occurrences(ClassLines(lang), CtorHeader(lang)) = 0
                  /\ \A call \in ParentCallLines(lang) :
                        Occurrences(ClassLines(lang), call) = 0
            /\ (\E i \in DOMAIN declared : declared[i].initarg)
               => Occurrences(ClassLines(lang), CtorHeader(lang)) = 1

\* C11 witness: a class with a parent in every target and one property that
\* is no initarg and has no default, rendered in every target
C11_Witness ==
    /\ \A lang \in Langs : ClassWritten(lang) /\ HasParent(lang)
    /\ Len(declared) = 1
    /\ ~declared[1].initarg /\ declared[1].kind = "none"

\* the line that declares a property in the class body, with the default as
\* a field initializer or without
PropLine(lang, decl, initializer) ==
    LET init == IF initializer THEN " = " \o DefaultText(decl) ELSE ""
    IN  Ind(1) \o (CASE lang = "python" -> decl.name \o ": " \o TypeText(lang, decl.name)
                      [] lang = "typescript" ->
                            "public " \o decl.name \o ": " \o TypeText(lang, decl.name)
                                \o init \o ";"
                      [] lang = "php" -> "public $" \o decl.name \o init \o ";")

\* C12: a literal default of a property that is no initarg is a field
\* initializer in TypeScript and PHP and is not assigned in their constructor,
\* and is assigned once in the constructor in Python; an expression default
\* is never a field initializer and is assigned once in the constructor in
\* every target
C12_DefaultSetOnce ==
    \A lang \in Langs :
        ClassWritten(lang) =>
            \A i \in DOMAIN declared :
                LET decl == declared[i]
                    assigned == Occurrences(ClassLines(lang),
                                            AssignLine(lang, decl.name, DefaultText(decl)))
                    infield == Occurrences(ClassLines(lang), PropLine(lang, decl, TRUE))
                    plain == Occurrences(ClassLines(lang), PropLine(lang, decl, FALSE))
                IN  /\ (~decl.initarg /\ decl.kind = "literal") =>
                          IF lang = "python"
                          THEN assigned = 1 /\ plain = 1
                          ELSE assigned = 0 /\ infield = 1 /\ plain = 0
                    /\ (~decl.initarg /\ decl.kind = "expr") =>
                          /\ assigned = 1
                          /\ plain = 1
                          /\ lang # "python" => infield = 0

\* C12 witness: a literal default and an expression default, neither of an
\* initarg, rendered in every target
C12_Witness ==
    /\ \A lang \in Langs : ClassWritten(lang)
    /\ \E i \in DOMAIN declared : ~declared[i].initarg /\ declared[i].kind = "literal"
    /\ \E i \in DOMAIN declared : ~declared[i].initarg /\ declared[i].kind = "expr"

\* C16: addProperty with a name the class already has raises InvalidLogic and
\* leaves the properties, the initargs and the defaults of the class as they
\* were, whatever initarg and default the call gives; and every text that
\* get_source_code returns declares each property once
C16_DuplicatePropertyRejected ==
    [][ /\ \A k \in 1..Len(cls.properties), initarg \in BOOLEAN,
              kind \in {"none", "literal", "expr"} :
              AddPropertyCall(k, initarg, kind) =>
                  /\ raised' = "InvalidLogic"
                  /\ cls'.properties = cls.properties
                  /\ cls'.initargs = cls.initargs
                  /\ cls'.initdefaults = cls.initdefaults
        /\ \A lang \in Langs :
              (clsout'[lang] # clsout[lang] /\ clsout'[lang].err = "") =>
                  \A i \in DOMAIN declared' :
                      Cardinality({ j \in DOMAIN clsout'[lang].lines :
                                      clsout'[lang].lines[j] \in
                                          { PropLine(lang, declared'[i], TRUE),
                                            PropLine(lang, declared'[i], FALSE) } }) = 1
      ]_vars

\* C16 witness: addProperty was rejected for a class that has a property, and
\* the class is rendered in every target
C16_Witness ==
    /\ raised = "InvalidLogic"
    /\ Len(declared) = MaxProps
    /\ \A lang \in Langs : ClassWritten(lang)

(***************************************************************************)
(* Scripts that hold a conditional.                                        *)
(***************************************************************************)
\* the variables no script operation touches
InitElsewhere ==
    /\ rendered = NotRendered
    /\ appendout = NoLines
    /\ tryblock = NoTry
    /\ tryout = NotWritten
    /\ cls = NoClass
    /\ clsout = NotWritten
    /\ declared = <<>>
    /\ repeated = FALSE
    /\ func = NoFunc
    /\ funcout = NotWritten
    /\ pantype = NotAsked
    /\ iface = NoInterface
    /\ ifaceout = NotWritten

ElsewhereUntouched ==
    UNCHANGED <<expr, rendered, appendout, tryblock, tryout, cls, clsout, declared,
                repeated, func, funcout, pantype, iface, ifaceout>>

\* no literal type was constructed
InitNoLiteral ==
    /\ lit = <<>>
    /\ littext = NotTyped

LiteralUntouched == UNCHANGED <<lit, littext>>

\* how many else-if arms a conditional may get
MaxAlternates == 1
\* how many statements an arm of a conditional may get
MaxArmStmts == 1

\* the conditional the script holds
Cond == script.statements[1]
HasCond == Len(script.statements) = 1

\* a builder call changed the script: what was rendered is out of date
ScriptChanged(newscript, exc) ==
    /\ script' = newscript
    /\ raised' = exc
    /\ scriptout' = NotWritten
    /\ UNCHANGED dest
    /\ ElsewhereUntouched
    /\ LiteralUntouched

\* with s.withCond(expr) as cond
withCond ==
    /\ ~HasCond
    /\ \E e \in { PanLiteral(BoolVal(TRUE)), PanVar("z") } :
          ScriptChanged([script EXCEPT !.statements = @ \o <<ConditionalBlock(e)>>], "")

\* with cond.withElseif(expr) as cond2
withElseif ==
    /\ HasCond
    /\ Len(Cond.alternates) < MaxAlternates
    /\ ScriptChanged([script EXCEPT !.statements[1].alternates =
                         @ \o <<[expr |-> PanLiteral(IntVal(3)), statements |-> <<>>]>>], "")

\* with cond.withElse() as else_ ; `assert not self._else`
withElse ==
    /\ HasCond
    /\ IF Cond.haselse THEN ScriptChanged(script, "AssertionError")
       ELSE ScriptChanged([script EXCEPT !.statements[1].haselse = TRUE], "")

\* the arms of the conditional: 0 is the primary arm, k the k-th else-if arm,
\* Len(alternates) + 1 the else arm
ArmNumbers == 0..(Len(Cond.alternates) + (IF Cond.haselse THEN 1 ELSE 0))
ArmStatements(arm) ==
    IF arm = 0 THEN Cond.statements
    ELSE IF arm <= Len(Cond.alternates) THEN Cond.alternates[arm].statements
    ELSE Cond.else_.statements

\* Statements.also / remark / blank called on the Statements of one arm
ArmAppend(arm, stmt) ==
    /\ Len(ArmStatements(arm)) < MaxArmStmts
    /\ ScriptChanged(
          IF arm = 0 THEN [script EXCEPT !.statements[1].statements = @ \o <<stmt>>]
          ELSE IF arm <= Len(Cond.alternates)
          THEN [script EXCEPT !.statements[1].alternates[arm].statements = @ \o <<stmt>>]
          ELSE [script EXCEPT !.statements[1].else_.statements = @ \o <<stmt>>], "")

\* arm.also(pan("f")()) 
ArmAlso == HasCond /\ \E arm \in ArmNumbers :
              ArmAppend(arm, PanExprStatement(PanCall(StrVal("f"), <<>>)))
\* arm.remark("Nothing to see here")
ArmRemark == HasCond /\ \E arm \in ArmNumbers : ArmAppend(arm, Comment("Nothing to see here"))
\* arm.blank()
ArmBlank == HasCond /\ \E arm \in ArmNumbers : ArmAppend(arm, BlankLine)

\* s.get_source_code(lang=lang) for each target
RenderScript ==
    /\ scriptout = NotWritten
    /\ scriptout' = [l \in Langs |-> Script_get_source_code(l, script)]
    /\ UNCHANGED <<script, raised, dest>>
    /\ ElsewhereUntouched
    /\ LiteralUntouched

InitCond ==
    /\ InitElsewhere
    /\ expr = PanVar("z")
    /\ InitNoLiteral
    /\ raised = ""
    /\ script = Script
    /\ scriptout = NotWritten
    /\ dest = <<>>

NextCond ==
    \/ withCond
    \/ withElseif
    \/ withElse
    \/ ArmAlso
    \/ ArmRemark
    \/ ArmBlank
    \/ RenderScript

SpecCond == InitCond /\ [][NextCond]_vars

\* the script was rendered in every target
ScriptRendered == \A l \in Langs : scriptout[l].err = ""

\* an arm whose statements are comments and blank lines only wrote no code
NoCodeLine(arm) ==
    \A i \in DOMAIN ArmStatements(arm) : ArmStatements(arm)[i].kind \in {"comment", "blank"}

\* how many statements the arms of the conditional hold together
RECURSIVE ArmStatementsUpTo(_)
ArmStatementsUpTo(arm) ==
    IF arm < 0 THEN 0 ELSE Len(ArmStatements(arm)) + ArmStatementsUpTo(arm - 1)

\* C21: in the Python text of a conditional every arm (the primary `if`, each
\* else-if, the else) whose body wrote no code line holds a `pass`, and no
\* other arm does; the TypeScript and PHP texts hold the arm headers, the
\* statements, the closing brace and the blank line, and nothing else
C21_EmptyArmGetsPass ==
    (HasCond /\ ScriptRendered) =>
        /\ Occurrences(scriptout["python"].lines, "    pass")
              = Cardinality({ arm \in ArmNumbers : NoCodeLine(arm) })
        /\ \A l \in {"typescript", "php"} :
              /\ Occurrences(scriptout[l].lines, "    pass") = 0
              /\ Len(scriptout[l].lines)
                    = (IF l = "php" THEN 2 ELSE 0) + Cardinality(ArmNumbers) + 2
                        + ArmStatementsUpTo(Cardinality(ArmNumbers) - 1)

\* C21 witness: a conditional whose primary arm and whose else-if arm hold a
\* comment only was rendered, and the Python text holds the `pass` of the
\* else-if arm
C21_Witness ==
    /\ HasCond /\ ScriptRendered
    /\ Cond.statements = <<Comment("Nothing to see here")>>
    /\ Len(Cond.alternates) = 1
    /\ Cond.alternates[1].statements = <<Comment("Nothing to see here")>>
    /\ Occurrences(scriptout["python"].lines, "    pass") = 1

(***************************************************************************)
(* Literal types.                                                          *)
(***************************************************************************)
\* how many variants a CrossLiteral is constructed with
MaxVariants == 3

\* the values a variant is drawn from
LiteralValues ==
    { BoolVal(TRUE), BoolVal(FALSE), IntVal(0), IntVal(1), IntVal(2), StrVal("a"),
      StrVal("b") }

\* no script is built
InitNoScript ==
    /\ script = Script
    /\ scriptout = NotWritten
    /\ dest = <<>>

ScriptUntouched == UNCHANGED <<script, scriptout, dest>>

\* a method of CrossLiteral(lit) was called and its result kept
LiteralCalled(field, text) ==
    /\ littext' = [littext EXCEPT ![field] = text]
    /\ UNCHANGED <<lit, raised>>
    /\ ElsewhereUntouched
    /\ ScriptUntouched

\* CrossLiteral(lit).getPyType()[0]
LiteralGetPyType == LiteralCalled("python", getPyType(CrossLiteral(lit)).code)
\* CrossLiteral(lit).getTSType()[0]
LiteralGetTSType == LiteralCalled("typescript", getTSType(CrossLiteral(lit)))
\* CrossLiteral(lit).getPHPTypes()[0]
LiteralGetPHPType == LiteralCalled("phplang", getPHPTypes(CrossLiteral(lit)).type)
\* CrossLiteral(lit).getPHPTypes()[1]
LiteralGetPHPDocType == LiteralCalled("phpdoc", getPHPTypes(CrossLiteral(lit)).doc)

InitLiteral ==
    /\ InitElsewhere
    /\ expr = PanVar("z")
    /\ InitNoScript
    /\ raised = ""
    /\ \E n \in 1..MaxVariants : lit \in [1..n -> LiteralValues]
    /\ littext = NotTyped

NextLiteral ==
    \/ LiteralGetPyType
    \/ LiteralGetTSType
    \/ LiteralGetPHPType
    \/ LiteralGetPHPDocType

SpecLiteral == InitLiteral /\ [][NextLiteral]_vars

\* the values of the literal type, in the order the texts list them: the
\* booleans first, True before False, then the ints ascending, then the
\* strings in lexicographic order
LiteralsInOrder ==
    SelectSeq(<<BoolVal(TRUE), BoolVal(FALSE), IntVal(0), IntVal(1), IntVal(2),
                StrVal("a"), StrVal("b")>>,
              LAMBDA v : \E i \in DOMAIN lit : lit[i] = v)

\* a value as Python and as TypeScript write it
LiteralPy(v) ==
    IF v = BoolVal(TRUE) THEN "True" ELSE IF v = BoolVal(FALSE) THEN "False"
    ELSE IF v.t = "int" THEN ToString(v.v) ELSE "'" \o v.v \o "'"
LiteralTS(v) ==
    IF v = BoolVal(TRUE) THEN "true" ELSE IF v = BoolVal(FALSE) THEN "false"
    ELSE LiteralPy(v)

\* the PHP types of the values, in lexicographic order
LiteralPHPTypes ==
    SelectSeq(<<"bool", "int", "string">>,
              LAMBDA name : \E i \in DOMAIN lit :
                  name = (CASE lit[i].t = "bool" -> "bool" [] lit[i].t = "int" -> "int"
                            [] lit[i].t = "str" -> "string"))

\* C22: every text rendered for a literal type is a function of the set of
\* its values, whatever the order and the repetitions of the variants it was
\* constructed with: the booleans first (True before False), then the ints
\* ascending, then the strings in lexicographic order, with True and 1 (False
\* and 0) both listed when both are values
C22_LiteralOrder ==
    /\ littext["python"] # "" =>
          littext["python"] = "Literal["
              \o Join([i \in DOMAIN LiteralsInOrder |-> LiteralPy(LiteralsInOrder[i])], ", ")
              \o "]"
    /\ littext["typescript"] # "" =>
          littext["typescript"] =
              Join([i \in DOMAIN LiteralsInOrder |-> LiteralTS(LiteralsInOrder[i])], " | ")
    /\ littext["phplang"] # "" =>
          littext["phplang"] = (IF Len(LiteralPHPTypes) = 1 THEN LiteralPHPTypes[1]
                                ELSE "mixed")
    /\ littext["phpdoc"] # "" => littext["phpdoc"] = Join(LiteralPHPTypes, "|")

\* C22 witness: a literal type constructed from 1, 'b' and True, in an order
\* that is not the order of the texts, was rendered in every target
C22_Witness ==
    /\ lit = <<IntVal(1), StrVal("b"), BoolVal(TRUE)>>
    /\ littext["python"] = "Literal[True, 1, 'b']"
    /\ littext["typescript"] = "true | 1 | 'b'"
    /\ littext["phplang"] = "mixed"
    /\ littext["phpdoc"] = "bool|int|string"

(***************************************************************************)
(* Scripts with imports: on the script itself and on a block it holds.     *)
(***************************************************************************)
\* how many alsoImportPy / alsoImportTS calls a script and its block may get
MaxImports == 2

ImportModules == {"alpha", "beta"}
\* names=None, names=["One"], names=["Two"]
ImportNamesPy == { [hasnames |-> FALSE, names |-> <<>>], [hasnames |-> TRUE, names |-> <<"One">>],
                   [hasnames |-> TRUE, names |-> <<"Two">>] }
\* names=None, names=["One"], names=["Two", "One"]
ImportNamesTS == { [hasnames |-> FALSE, names |-> <<>>], [hasnames |-> TRUE, names |-> <<"One">>],
                   [hasnames |-> TRUE, names |-> <<"Two", "One">>] }

\* how many import calls were made so far
ImportCalls(s) ==
    Len(s.importspy) + Len(s.importsts)
        + (IF Len(s.statements) = 1
           THEN Len(s.statements[1].importspy) + Len(s.statements[1].importsts) ELSE 0)

\* s.alsoImportPy(module, names)
ScriptAlsoImportPy ==
    /\ ImportCalls(script) < MaxImports
    /\ \E module \in ImportModules, n \in ImportNamesPy :
          ScriptChanged(alsoImportPy(script, module, n.hasnames, n.names), "")

\* s.alsoImportTS(module, names)
ScriptAlsoImportTS ==
    /\ ImportCalls(script) < MaxImports
    /\ \E module \in ImportModules, n \in ImportNamesTS :
          ScriptChanged(alsoImportTS(script, module, n.hasnames, n.names), "")

\* cond.alsoImportPy(module, names), for the block of `with s.withCond(..) as cond`
CondAlsoImportPy ==
    /\ HasCond
    /\ ImportCalls(script) < MaxImports
    /\ \E module \in ImportModules, n \in ImportNamesPy :
          ScriptChanged([script EXCEPT !.statements[1] =
                            alsoImportPy(@, module, n.hasnames, n.names)], "")

\* cond.alsoImportTS(module, names)
CondAlsoImportTS ==
    /\ HasCond
    /\ ImportCalls(script) < MaxImports
    /\ \E module \in ImportModules, n \in ImportNamesTS :
          ScriptChanged([script EXCEPT !.statements[1] =
                            alsoImportTS(@, module, n.hasnames, n.names)], "")

InitImports ==
    /\ InitElsewhere
    /\ expr = PanVar("z")
    /\ InitNoLiteral
    /\ InitNoScript
    /\ raised = ""

NextImports ==
    \/ withCond
    \/ ScriptAlsoImportPy
    \/ ScriptAlsoImportTS
    \/ CondAlsoImportPy
    \/ CondAlsoImportTS
    \/ RenderScript

SpecImports == InitImports /\ [][NextImports]_vars

\* the import requirements of a target: every (module, name) an import call
\* on the script or on its block asked for; the name "" asks for the module
ImportCallsOf(field) ==
    { script[field][i] : i \in DOMAIN script[field] }
        \cup (IF HasCond THEN { Cond[field][i] : i \in DOMAIN Cond[field] } ELSE {})
Requirements(lang) ==
    CASE lang = "python" ->
            { <<c.module, c.name>> : c \in ImportCallsOf("importspy") }
      [] lang = "typescript" ->
            UNION { IF c.hasnames THEN { <<c.module, c.names[k]>> : k \in DOMAIN c.names }
                    ELSE { <<c.module, "">> } : c \in ImportCallsOf("importsts") }
      [] lang = "php" -> {}

\* the lines that come before the statements of the script
ImportBlock(lang) ==
    LET lines == scriptout[lang].lines
        first == IF lang = "php" THEN 3 ELSE 1
        content == IF ~HasCond THEN 0 ELSE IF lang = "python" THEN 2 ELSE 3
    IN  SubSeq(lines, first, Len(lines) - content)

\* every way to write the names One and Two in a list
NameLists == { <<"One">>, <<"Two">>, <<"One", "One">>, <<"One", "Two">>, <<"Two", "One">>,
               <<"Two", "Two">> }

\* how often a line states a requirement
States(lang, line, req) ==
    IF req[2] = ""
    THEN IF line = (IF lang = "python" THEN "import " \o req[1]
                    ELSE "import '" \o req[1] \o "';") THEN 1 ELSE 0
    ELSE IF lang = "python"
    THEN IF \E names \in NameLists : line = "from " \o req[1] \o " import " \o Join(names, ", ")
         THEN LET names == CHOOSE names \in NameLists :
                              line = "from " \o req[1] \o " import " \o Join(names, ", ")
              IN  Cardinality({ k \in DOMAIN names : names[k] = req[2] })
         ELSE 0
    ELSE IF line = "import {" \o req[2] \o "} from '" \o req[1] \o "';" THEN 1 ELSE 0

\* how often the import block of a target states a requirement
RECURSIVE TimesStated(_, _, _)
TimesStated(lang, lines, req) ==
    IF Len(lines) = 0 THEN 0
    ELSE States(lang, Head(lines), req) + TimesStated(lang, Tail(lines), req)

\* every requirement an import line could state
AllRequirements == ImportModules \X {"", "One", "Two"}

ImportsInOrder(lang) ==
    LET reqs == Requirements(lang)
        modules == SelectSeq(<<"alpha", "beta">>, LAMBDA m : \E r \in reqs : r[1] = m)
        bare == SelectSeq(modules, LAMBDA m : <<m, "">> \in reqs)
        named == SelectSeq(modules, LAMBDA m : \E r \in reqs : r[1] = m /\ r[2] # "")
        symbols(m) == SelectSeq(<<"One", "Two">>, LAMBDA n : <<m, n>> \in reqs)
        tslines(m) == (IF <<m, "">> \in reqs THEN <<"import '" \o m \o "';">> ELSE <<>>)
                        \o [k \in DOMAIN symbols(m) |->
                              "import {" \o symbols(m)[k] \o "} from '" \o m \o "';"]
        ts[k \in 0..Len(modules)] == IF k = 0 THEN <<>> ELSE ts[k - 1] \o tslines(modules[k])
    IN  CASE lang = "python" ->
                [k \in DOMAIN bare |-> "import " \o bare[k]]
                \o (IF Len(bare) > 0 THEN <<"">> ELSE <<>>)
                \o [k \in DOMAIN named |->
                      "from " \o named[k] \o " import " \o Join(symbols(named[k]), ", ")]
                \o (IF Len(named) > 0 THEN <<"">> ELSE <<>>)
          [] lang = "typescript" ->
                ts[Len(modules)] \o (IF Len(modules) > 0 THEN <<"">> ELSE <<>>)
          [] lang = "php" -> <<>>

\* C24: the import block of every target is a function of the set of
\* requirements: whatever the order in which they were asked for and met, the
\* modules come in the order of their names and the symbols of a module in
\* the order of their names
C24_ImportOrder ==
    ScriptRendered => \A lang \in Langs : ImportBlock(lang) = ImportsInOrder(lang)

\* C24 witness: TypeScript imports of beta and then of alpha were asked for,
\* the script was rendered, and the import of beta is written first
C24_Witness ==
    /\ ScriptRendered
    /\ script.importsts = <<[module |-> "beta", hasnames |-> FALSE, names |-> <<>>],
                            [module |-> "alpha", hasnames |-> FALSE, names |-> <<>>]>>
    /\ ImportBlock("typescript") = <<"import 'beta';", "import 'alpha';", "">>
    /\ ImportBlock("python") = ImportsInOrder("python")

(***************************************************************************)
(* The order of the statements of a script.  Every builder call is given a *)
(* serial number, which is part of what it adds: the k-th call adds the    *)
(* statement f<k>(), the comment c<k> or a conditional on the variable     *)
(* c<k>.  `declared` is the log of the calls.                              *)
(***************************************************************************)
\* how many builder calls a script gets
MaxCalls == 4

\* as StatementsAppend, but the statement is put in front
StatementsAppendMut(stmts, stmt) == [stmts EXCEPT !.statements = <<stmt>> \o @]

\* self._statements.append(stmt)
StatementsAppend(stmts, stmt) == [stmts EXCEPT !.statements = @ \o <<stmt>>]

\* the serial number of the next call, and the statement f<k>()
Serial == Len(declared) + 1
Marked(k) == PanExprStatement(PanCall(StrVal("f" \o ToString(k)), <<>>))

\* a builder call was made on the script (on = 0) or on the block that the
\* call with serial number `on` opened
Called(op, on, newscript) ==
    /\ Len(declared) < MaxCalls
    /\ declared' = declared \o <<[op |-> op, on |-> on]>>
    /\ script' = newscript
    /\ scriptout' = NotWritten
    /\ UNCHANGED <<dest, raised>>
    /\ UNCHANGED <<expr, rendered, appendout, tryblock, tryout, cls, clsout, repeated, func,
                   funcout, pantype, iface, ifaceout>>
    /\ LiteralUntouched

\* s.also(pan("f<k>")())
ScriptAlso == Called("also", 0, StatementsAppend(script, Marked(Serial)))

\* s.remark("c<k>")
ScriptRemark ==
    Called("remark", 0, StatementsAppend(script, Comment("c" \o ToString(Serial))))

\* with s.withCond(PanVar("c<k>")) as cond: the block is appended when the
\* scope is opened
ScriptWithCond ==
    Called("cond", 0,
           StatementsAppend(script, ConditionalBlock(PanVar("c" \o ToString(Serial)))))

\* with s.withTryBlock() as tryblock
ScriptWithTryBlock == Called("try", 0, StatementsAppend(script, TryCatchBlock))

\* the position in the script of the block that call k opened
BlockPosition(k) == Cardinality({ j \in 1..k : declared[j].on = 0 })

\* block.also(pan("f<k>")()) on a block opened earlier, whatever was added
\* to the script since
BlockAlso ==
    \E k \in DOMAIN declared :
        /\ declared[k].op \in {"cond", "try"}
        /\ Called("also", k,
                  [script EXCEPT !.statements[BlockPosition(k)] =
                      StatementsAppend(@, Marked(Serial))])

\* s.get_source_code(lang=lang) for each target, for a script whose calls
\* are logged
RenderLogged ==
    /\ RenderScript
    /\ UNCHANGED declared

InitOrder ==
    /\ InitElsewhere
    /\ expr = PanVar("z")
    /\ InitNoLiteral
    /\ InitNoScript
    /\ raised = ""

NextOrder ==
    \/ ScriptAlso
    \/ ScriptRemark
    \/ ScriptWithCond
    \/ ScriptWithTryBlock
    \/ BlockAlso
    \/ RenderLogged

SpecOrder == InitOrder /\ [][NextOrder]_vars

\* the text that call k of a log accounts for, written from the log: a
\* statement is one line; a block is its header, the statements that were
\* added to it in the order of their calls, and its end
CallLines(lang, log, k) ==
    LET end == IF lang = "python" THEN "" ELSE ";"
        statement(j, ind) == <<ind \o "f" \o ToString(j) \o "()" \o end>>
        added == SelectSeq([j \in DOMAIN log |-> j], LAMBDA j : log[j].on = k)
        body[n \in 0..Len(added)] ==
            IF n = 0 THEN <<>> ELSE body[n - 1] \o statement(added[n], "    ")
        name == (IF lang = "php" THEN "$c" ELSE "c") \o ToString(k)
    IN  CASE log[k].on # 0 -> <<>>
          [] log[k].op = "also" -> statement(k, "")
          [] log[k].op = "remark" ->
                <<(IF lang = "python" THEN "# c" ELSE "// c") \o ToString(k)>>
          [] log[k].op = "cond" ->
                IF lang = "python" THEN <<"if " \o name \o ":">> \o body[Len(added)] \o <<"">>
                ELSE <<"if (" \o name \o ") {">> \o body[Len(added)] \o <<"}", "">>
          [] log[k].op = "try" ->
                IF lang = "python" THEN <<"try:">> \o body[Len(added)]
                ELSE <<"try {">> \o body[Len(added)] \o <<"}">>

\* the text of the calls of a log, in the order of the calls
LogLines(lang, log) ==
    LET upto[k \in 0..Len(log)] ==
            IF k = 0 THEN (IF lang = "php" THEN <<"<?php", "">> ELSE <<>>)
            ELSE upto[k - 1] \o CallLines(lang, log, k)
    IN  upto[Len(log)]

TargetLeaves ==
    { PanVar("z"), PanLiteral(BoolVal(TRUE)), PanLiteral(NoneVal), PanProp("p", NoExpr),
      PanOmit }

\* pannotomit(expr)
pannotomit_ == Built(pannotomit(expr))

\* s.alsoRaise(expr=e)
ScriptAlsoRaise ==
    /\ script.statements = <<>>
    /\ \E e \in TargetLeaves : ScriptChanged(StatementsAppend(script, SimpleRaise("", "", e)), "")

InitTarget ==
    /\ InitElsewhere
    /\ expr \in TargetLeaves
    /\ InitNoLiteral
    /\ InitNoScript
    /\ raised = ""

NextTarget ==
    \/ andor
    \/ pannotomit_
    \/ RenderExpr
    \/ ScriptAlsoRaise
    \/ RenderScript

SpecTarget == InitTarget /\ [][NextTarget]_vars

\* C26: a TypeScript text is built from the TypeScript texts of the operands:
\* that of an and/or with two or more operands, that of the check that an
\* argument was not omitted, and that of a raise with an expression argument
C26_TargetRenderingOnly ==
    /\ (Rendered("typescript") /\ expr.kind = "andor" /\ Len(expr.arguments) >= 2) =>
          rendered["typescript"].code =
              "!!(" \o Join([i \in DOMAIN expr.arguments |->
                                Parens(OperandCode(expr.arguments[i], "typescript"))],
                            IF expr.operation = "OR" THEN " || " ELSE " && ") \o ")"
    /\ (Rendered("typescript") /\ expr.kind = "notomit") =>
          rendered["typescript"].code =
              "typeof " \o WrapDot(getExpr(expr.expr, "typescript"), "typescript")
                  \o " !== 'undefined'"
    /\ (scriptout["typescript"].err = "" /\ Len(script.statements) = 1) =>
          scriptout["typescript"].lines =
              <<"throw new Error(" \o OperandCode(script.statements[1].expr, "typescript")
                  \o ");">>

\* C26 witness: an `or` of None and y and a raise of self.p were rendered for
\* TypeScript, and both texts hold what Python writes for the operand
C26_Witness ==
    /\ expr = PanAndOr("OR", <<PanLiteral(NoneVal), PanVar("y")>>)
    /\ rendered["typescript"].code = "!!((None) || (y))"
    /\ script.statements = <<SimpleRaise("", "", PanProp("p", NoExpr))>>
    /\ scriptout["typescript"].lines = <<"throw new Error(self.p);">>

(***************************************************************************)
(* The order of the catch arms in the three renderings of a try block.     *)
(***************************************************************************)
\* the try block was written for every target
TryWrittenEverywhere == tryout # NotWritten /\ \A l \in Langs : tryout[l].err = ""

\* where the body of catch arm i is in the text of a target: the place at
\* which the arm is tried, relative to the other arms
ArmAt(lang, i) ==
    LET call == tryblock.catchblocks[i].statements[1].expr.target.v \o "()"
                    \o (IF lang = "python" THEN "" ELSE ";")
        lines == tryout[lang].lines
    IN  IF PosOf(lines, Ind(1) \o call) > 0 THEN PosOf(lines, Ind(1) \o call)
        ELSE PosOf(lines, Ind(2) \o call)

\* C27: when a try block renders in all three targets, its catch arms are
\* tried in the same order in the Python, the PHP and the TypeScript text: an
\* arm that comes before another in one text comes before it in the others, so
\* a catch-all declared before a typed arm shadows it in all three or in none
C27_SameArmOrder ==
    TryWrittenEverywhere =>
        \A i, j \in DOMAIN tryblock.catchblocks, l1, l2 \in Langs :
            /\ ArmAt(l1, i) > 0
            /\ (ArmAt(l1, i) < ArmAt(l1, j)) = (ArmAt(l2, i) < ArmAt(l2, j))

\* C27 witness: a catch-all arm declared before a typed arm, both binding e,
\* was rendered in every target; Python and PHP try the catch-all first,
\* TypeScript tests the typed arm first
C27_Witness ==
    /\ TryWrittenEverywhere
    /\ Len(tryblock.catchblocks) = 2
    /\ tryblock.catchblocks[1].tsclass = "" /\ tryblock.catchblocks[1].var = "e"
    /\ tryblock.catchblocks[2].tsclass = "SomeException"
    /\ ArmAt("python", 1) < ArmAt("python", 2)
    /\ ArmAt("php", 1) < ArmAt("php", 2)
    /\ ArmAt("typescript", 2) < ArmAt("typescript", 1)

(***************************************************************************)
(* What the TypeScript catch clause binds.                                 *)
(***************************************************************************)
\* the names a catch clause may bind: a variable of a catch arm, or a
\* placeholder
CatchIdentifiers == (CatchVars \ {""}) \cup {"_", "_e", "e_"}

\* C29: a try block written for TypeScript has a catch clause that binds an
\* identifier, the variable of a catch arm or a placeholder, also when no
\* catch arm binds a variable; else the rendering fails, and no text holds
\* `catch (None)`
C29_CatchBindsIdentifier ==
    tryout # NotWritten =>
        /\ PosOf(tryout["typescript"].lines, "} catch (None) {") = 0
        /\ tryout["typescript"].err = "" =>
              \E v \in CatchIdentifiers :
                  PosOf(tryout["typescript"].lines, "} catch (" \o v \o ") {") > 0

\* C29 witness: a try block whose one catch arm is a catch-all that binds no
\* variable was written for TypeScript without an exception
C29_Witness ==
    /\ TSTryWritten
    /\ Len(tryblock.catchblocks) = 1
    /\ tryblock.catchblocks[1].var = ""
    /\ tryblock.catchblocks[1].tsclass = ""
    /\ tryout["typescript"].lines[3] = "} catch (None) {"

(***************************************************************************)
(* Item access built with getitem and getindex.  `declared` holds the      *)
(* arguments of the call that built the access in expr.                    *)
(***************************************************************************)
\* the expressions getitem and getindex are called on
ItemTargets ==
    { PanVarOfType("z", CrossList(CrossNum)), PanVarOfType("z", CrossDict(CrossStr, CrossNum)),
      PanVarOfType("z", CrossAny), PanVar("z"), PanLiteral(IntVal(5)) }
\* the indexes: the ints 0 and 1, the str 'k', the expressions i and 'k'
ItemIndexes == { IntVal(0), IntVal(1), StrVal("k"), PanVar("i"), PanLiteral(StrVal("k")) }
\* no fallback, the fallback 5, the fallback d
ItemFallbacks == { NoExpr, PanLiteral(IntVal(5)), PanVar("d") }

\* getitem or getindex returned an access, or raised
ItemCalled(method, idx, fallback, result) ==
    /\ declared = <<>>
    /\ declared' = <<[method |-> method, idx |-> idx, fallback |-> fallback]>>
    /\ expr' = IF result.err = "" THEN result.node ELSE expr
    /\ raised' = result.err
    /\ rendered' = NotRendered
    /\ UNCHANGED <<appendout, pantype, tryblock, tryout, cls, clsout, repeated, func, funcout,
                   iface, ifaceout>>
    /\ ScriptUntouched
    /\ LiteralUntouched

\* expr.getitem(idx, fallback)
getitem_ ==
    \E idx \in ItemIndexes, fallback \in ItemFallbacks :
        ItemCalled("getitem", idx, fallback, getitem(expr, idx, fallback))

\* expr.getindex(idx, fallback)
getindex_ ==
    \E idx \in { i \in ItemIndexes : IsExpr(i) \/ i.t = "int" }, fallback \in ItemFallbacks :
        ItemCalled("getindex", idx, fallback, getindex(expr, idx, fallback))

\* the access is rendered for every target
RenderItem ==
    /\ declared # <<>>
    /\ raised = ""
    /\ RenderExpr

InitItem ==
    /\ InitElsewhere
    /\ expr \in ItemTargets
    /\ InitNoLiteral
    /\ InitNoScript
    /\ raised = ""

NextItem ==
    \/ getitem_
    \/ getindex_
    \/ RenderItem

SpecItem == InitItem /\ [][NextItem]_vars

\* the text of an access without a fallback
PlainAccess(lang) ==
    OperandCode(expr.target, lang) \o "["
        \o (IF IsExpr(expr.idx) THEN OperandCode(expr.idx, lang)
            ELSE IF expr.idx.t = "int" THEN ToString(expr.idx.v)
            ELSE "'" \o expr.idx.v \o "'") \o "]"

\* C28: the access that getitem(idx, fallback) returns carries the fallback
\* it was given, for an int, a str and an expression as the index, and no
\* rendering of it is the plain access without the default
C28_FallbackKept ==
    (/\ declared # <<>>
     /\ declared[1].method = "getitem"
     /\ declared[1].fallback # NoExpr
     /\ raised = "") =>
        /\ expr.fallback = declared[1].fallback
        /\ \A lang \in Langs : Rendered(lang) => rendered[lang].code # PlainAccess(lang)

\* C28 witness: getitem was called on a dict with the expression i as the
\* index and the fallback 5; the access it returned has no fallback and
\* renders as z[i]
C28_Witness ==
    /\ declared = <<[method |-> "getitem", idx |-> PanVar("i"),
                     fallback |-> PanLiteral(IntVal(5))]>>
    /\ raised = ""
    /\ expr = PanKeyAccess(PanVarOfType("z", CrossDict(CrossStr, CrossNum)), PanVar("i"), NoExpr)
    /\ rendered["python"].code = "z[i]"

(***************************************************************************)
(* Writing a script to a handle or to a path.  dest is the text at the     *)
(* destination, line by line; `declared` holds the arguments of the write  *)
(* and the text that was at the destination before it.                     *)
(***************************************************************************)
MaxWritten == 2
\* what the destination holds before the write: nothing, or one line
ExistingContents == { <<>>, <<"old">> }
\* the expressions added as statements: z is written for every target, the
\* omit marker is not supported for PHP, the Python-only code raises for
\* the other two targets
WriteLeaves == { PanVar("z"), PanOmit, PanPyOnly("x") }

\* before the write the script is filled
Filling(newscript) ==
    /\ declared = <<>>
    /\ Len(script.statements) < MaxWritten
    /\ script' = newscript
    /\ UNCHANGED <<scriptout, dest, raised, declared>>
    /\ UNCHANGED <<expr, rendered, appendout, tryblock, tryout, cls, clsout, repeated, func,
                   funcout, pantype, iface, ifaceout>>
    /\ LiteralUntouched

\* s.also(expr)
FillAlso == \E e \in WriteLeaves : Filling(StatementsAppend(script, PanExprStatement(e)))

\* s.remark('c')
FillRemark == Filling(StatementsAppend(script, Comment("c")))

\* one write: the destination afterwards and the exception, if any
Written(method, lang, pretty, after, exc) ==
    /\ declared = <<>>
    /\ declared' = <<[method |-> method, lang |-> lang, pretty |-> pretty, before |-> dest]>>
    /\ dest' = after
    /\ raised' = exc
    /\ UNCHANGED <<script, scriptout>>
    /\ UNCHANGED <<expr, rendered, appendout, tryblock, tryout, cls, clsout, repeated, func,
                   funcout, pantype, iface, ifaceout>>
    /\ LiteralUntouched

\* a write through a FileWriter on the destination: write_to_handle writes
\* each line to the handle as it is produced, after what the handle holds;
\* write_to_path empties the file with target.open("w") first, then the
\* lines are written to it as they are produced
write_to(method) ==
    \E lang \in Langs, pretty \in BOOLEAN :
        \E w \in {write_to_writer(lang, script, pretty)} :
            Written(method, lang, pretty,
                    IF method = "write_to_handle" THEN dest \o w.lines ELSE w.lines, w.err)

\* Script.write_to_handle(handle, lang=.., pretty=..)
write_to_handle == write_to("write_to_handle")

\* Script.write_to_path(target, lang=.., pretty=..)
write_to_path == write_to("write_to_path")

InitWrite ==
    /\ InitElsewhere
    /\ expr = PanVar("z")
    /\ InitNoLiteral
    /\ script = Script
    /\ scriptout = NotWritten
    /\ dest \in ExistingContents
    /\ raised = ""

NextWrite ==
    \/ FillAlso
    \/ FillRemark
    \/ write_to_handle
    \/ write_to_path

SpecWrite == InitWrite /\ [][NextWrite]_vars

\* C30: when write_to_handle or write_to_path raised, the destination holds
\* what it held before the call: nothing was added to the handle and the
\* file at the path was not emptied
C30_FailedWriteLeavesDestination ==
    (declared # <<>> /\ raised # "") => dest = declared[1].before

\* C30 witness: write_to_handle for PHP of a script with a comment and then
\* the omit marker raised NotSupportedError after the PHP header and the
\* comment had been written to the handle behind its old line
C30_Witness ==
    /\ declared = <<[method |-> "write_to_handle", lang |-> "php", pretty |-> FALSE,
                     before |-> <<"old">>]>>
    /\ script.statements = <<Comment("c"), PanExprStatement(PanOmit)>>
    /\ raised = "NotSupportedError"
    /\ dest = <<"old", "<?php", "", "// c">>

====
